---- MODULE Spec2Model ----
(***************************************************************************)
(* Model of the streaming packet pipeline of the LITIV datasets module:    *)
(* lv::DataPrecacher and lv::DataWriter (modules/datasets/src/utils.cpp).  *)
(*                                                                         *)
(* A cv::Mat is modelled as a header [data, off, len, src]: data says      *)
(* where the payload lives ("null": empty Mat, "heap": a reference-counted *)
(* buffer produced by the loader callback for index src, "ring": a view    *)
(* of len bytes at offset off of the worker's scratch buffer vcBuffer).    *)
(* The bytes of a ring view are read from vcBuffer, so a view whose region *)
(* is overwritten changes its bytes.                                       *)
(***************************************************************************)
EXTENDS Integers, Sequences, FiniteSets, TLC

(***************************************************************************)
(* Bounds of the model.                                                    *)
(***************************************************************************)
SizeBits == 6          \* width of size_t in the model
NumPackets == 4        \* getTotPackets() of the batch behind the loader
MaxBufferSize == 8     \* largest scratch buffer (stands for CACHE_MAX_SIZE)
MaxSpurious == 1       \* spurious condition-variable wake-ups in a behaviour
MaxWorkers == 2        \* largest nWorkers given to startAsyncWriting
NumCallers == 2        \* threads that call DataWriter::queue
MaxPushes == 3         \* queue calls in a behaviour with one drain thread
MaxPushesMany == 2     \* queue calls in a behaviour with several drain threads
MaxIdx == 1            \* largest packet index given to queue
MaxLen == 2            \* largest size of a packet given to queue, in bytes
MaxQueueSize == 3      \* largest nSuggestedQueueSize
MaxResult == 1         \* largest value returned by the callback
FillPackets == 12      \* packets of the batch with which the fill pass is studied
FillBufferSize == 16   \* scratch buffer with which the fill pass is studied
SeqPackets == 32       \* packets requested in order, one after the other
SeqBufferSize == 16    \* scratch buffer of the sequential run
SeqPacketSize == 1     \* size of every packet of the sequential run
SeqSmallBufferSize == 8  \* scratch buffer of the run with large packets
SeqLargePacketSize == 4  \* size of every packet of that run
MaxLoads == 60         \* largest count of loader calls that is kept

Modulus == 2 ^ SizeBits
SIZE_MAX == Modulus - 1
CACHE_MAX_SIZE == MaxBufferSize

Add(a, b) == (a + b) % Modulus
Sub(a, b) == (a - b + Modulus) % Modulus

VARIABLES
    \* ---- the loader behind the precacher (fixed during a behaviour)
    pktLen,               \* size in bytes of the packet of each index
    \* ---- lv::DataPrecacher members
    pre_bIsActive,        \* m_bIsActive
    m_nReqIdx,
    m_nLastReqIdx,
    m_oReqPacket,
    m_oLastReqPacket,
    \* ---- locals of lv::DataPrecacher::entry (the worker thread)
    nBufferSize,
    qoCache,
    vcBuffer,
    nNextExpectedReqIdx,
    nNextPrecacheIdx,
    nFirstBufferIdx,
    nNextBufferIdx,
    \* ---- control state
    wpc,                  \* worker: "none", "spawned", "prefill", "wait"
    cpc,                  \* calling thread: "idle", "wait" (in getPacket),
                          \*   "join", "rejoin" (in stopAsyncPrecaching)
    nIdx,                 \* argument of the getPacket call in progress
    reqNotified,          \* m_oReqCondVar: the waiting worker was notified
    syncNotified,         \* m_oSyncCondVar: the waiting caller was notified
    undefined,            \* the worker executed undefined behaviour
    nSpurious,            \* spurious wake-ups so far
    \* ---- observation
    calls,                \* indices passed to m_lCallback by the last step
    wstep,                \* what the worker's last step did
    loaded,               \* the loader was invoked for the call in progress
    ret,                  \* the last completed getPacket call
    nLoads                \* invocations of m_lCallback so far, where counted

pvars == <<pktLen, pre_bIsActive, m_nReqIdx, m_nLastReqIdx, m_oReqPacket,
           m_oLastReqPacket, nBufferSize, qoCache, vcBuffer,
           nNextExpectedReqIdx, nNextPrecacheIdx, nFirstBufferIdx,
           nNextBufferIdx, wpc, cpc, nIdx, reqNotified, syncNotified,
           undefined, nSpurious, calls, wstep, loaded, ret, nLoads>>

VARIABLES
    \* ---- lv::DataWriter members
    wr_bIsActive,         \* m_bIsActive
    m_bAllowPacketDrop,
    m_nQueueMaxSize,
    m_nQueueSize,
    m_nQueueCount,
    m_mQueue,             \* index -> packet, for the indices pending
    \* ---- control state
    tpc,                  \* drain threads: "none", "start", "body",
                          \*   "waiting", "sink", "done"
    oPacketData,          \* the entry a drain thread took from the queue
    queueNotified,        \* m_oQueueCondVar: the waiting thread was notified
    ppc,                  \* callers of queue: "idle", "entered", "waiting",
                          \*   "unlocked"
    job,                  \* the queue call in progress of each caller
    clearNotified,        \* m_oClearCondVar: the waiting caller was notified
    ctl,                  \* start/stop: "new", "started", "stop_notify",
                          \*   "stop_join", "stopped", "failed"
    aborted,              \* an lvAssert_ failed in a drain thread
    m_vhWorkers,          \* the thread objects created by startAsyncWriting
    joinError,            \* join was called on a thread that is not joinable
    \* ---- observation
    pushes                \* every queue call so far, and what became of it

wvars == <<wr_bIsActive, m_bAllowPacketDrop, m_nQueueMaxSize, m_nQueueSize,
           m_nQueueCount, m_mQueue, tpc, oPacketData, queueNotified, ppc,
           job, clearNotified, ctl, aborted, m_vhWorkers, joinError, pushes>>

VARIABLES
    \* ---- lv::IDataProducer_ members (one producer object)
    eDatasetSource,       \* the class of the producer: "image" or "video"
    eGTMappingType,       \* getGTMappingType()
    m_mGTIndexLUT,        \* packet index -> index into m_vsGTPaths
    m_vsGTPaths,          \* the ground-truth files, by position (from 0)
    \* ---- observation
    gtRet                 \* what the last _getGTPacket_impl call did

gvars == <<eDatasetSource, eGTMappingType, m_mGTIndexLUT, m_vsGTPaths, gtRet>>

vars == <<pvars, wvars, gvars>>

(***************************************************************************)
(* Packets.                                                                *)
(***************************************************************************)
NoSrc == SIZE_MAX
EmptyMat == [data |-> "null", off |-> 0, len |-> 0, src |-> NoSrc]
HeapMat(i, n) == [data |-> "heap", off |-> 0, len |-> n, src |-> i]
RingMat(o, n) == [data |-> "ring", off |-> o, len |-> n, src |-> NoSrc]

\* size in bytes of what the dataset holds for index i
LoaderLen(i) == IF i \in DOMAIN pktLen THEN pktLen[i] ELSE 0

\* the bytes the deterministic loader yields for index i
PacketBytes(i) == [k \in 1..LoaderLen(i) |-> <<i, k>>]

\* the loader callback: IDataLoader::_getInputPacket_redirect
m_lCallback(i) == IF LoaderLen(i) = 0 THEN EmptyMat ELSE HeapMat(i, LoaderLen(i))

\* oPacket.total()*oPacket.elemSize()
PacketSize(m) == m.len

ZeroByte == <<SIZE_MAX, 0>>

\* the bytes a Mat header gives access to, in the current state
MatBytesIn(buf, m) ==
    CASE m.data = "null" -> <<>>
      [] m.data = "heap" -> PacketBytes(m.src)
      [] m.data = "ring" ->
            [k \in 1..m.len |->
                IF m.off + k <= Len(buf) THEN buf[m.off + k] ELSE ZeroByte]

MatBytes(m) == MatBytesIn(vcBuffer, m)

\* the loader calls are not counted in this behaviour
NoCount == Modulus

\* the count of loader calls is kept up to MaxLoads
CountLoads ==
    nLoads' = IF nLoads = NoCount THEN NoCount
              ELSE IF nLoads + Len(calls') > MaxLoads THEN MaxLoads
              ELSE nLoads + Len(calls')

\* oNextPacket.copyTo(oNextPacket_cache) with the cache Mat at offset o
CopyTo(buf, m, o) ==
    [k \in 1..Len(buf) |->
        IF o < k /\ k <= o + m.len THEN PacketBytes(m.src)[k - o] ELSE buf[k]]


(***************************************************************************)
(* lv::DataPrecacher::entry -- the worker thread.                          *)
(***************************************************************************)

\* variant: prefill caches empty packets too
PrefillFitsEmpty(next, sz, size) == Add(next, sz) < size

\* variant: prefill without the comparison to the buffer size
PrefillFitsNoBound(next, sz, size) == sz > 0

\* variant: prefill fills the buffer to its last byte
PrefillFitsToEnd(next, sz, size) == sz > 0 /\ Add(next, sz) <= size

\* the condition under which prefill caches the next packet (line 131)
PrefillFits(next, sz, size) == sz > 0 /\ Add(next, sz) < size

\* bytes of the ring in use, as the worker computes them (line 181)
UsedBufferSize(first, next, size) ==
    IF first = SIZE_MAX THEN 0
    ELSE IF first < next THEN Sub(next, first)
    ELSE Add(Sub(size, first), next)

\* variant: every timeout starts a fill pass
FillWantedAlways(used, size) == TRUE

\* the worker fills only below a quarter of the buffer (line 182)
FillWanted(used, size) == used < size \div 4

\* variant: only the empty ring sends a packet to offset 0
WrapNeededOnlyEmpty(next, sz, size) == next = SIZE_MAX

\* no room after the write offset: the packet must go to offset 0 (line 193)
WrapNeeded(next, sz, size) == next = SIZE_MAX \/ Add(next, sz) >= size

\* variant: the wrap looks only at the buffer size
WrapBlockedNoFirst(first, sz, size) == sz >= size

\* the packet does not fit before the first live byte either (line 194)
WrapBlocked(first, sz, size) ==
    (first # SIZE_MAX /\ sz >= first) \/ sz >= size

\* variant: the wrapped ring takes any packet at the write offset
FitsAnywhere(first, next, sz) == TRUE

\* wrapped ring: the packet fits between the write offset and the first
\* live byte (line 210)
FitsBeforeFirst(first, next, sz) == Add(next, sz) < first

\* variant: a fill iteration that does not advance the precache index
AdvanceNoIndex(s, sz) == [s EXCEPT !.used = Add(@, sz)]

\* the end of a fill iteration that cached a packet (lines 218-219)
Advance(s, sz) == [s EXCEPT !.used = Add(@, sz), !.np = Add(@, 1)]

\* qoCache.push of a view at offset o, after copying the packet there
Enqueue(s, pkt, o) ==
    [s EXCEPT !.q = Append(@, RingMat(o, PacketSize(pkt))),
              !.buf = CopyTo(@, pkt, o)]

\* the packets a fill pass may cache (line 186)
MaxFillCount == 10

\* the fill loop (lines 186-220); nFillCount is never incremented
RECURSIVE FillLoop(_)

\* the next iteration of the fill loop, on the locals as they now are
FillAgain(t) == CHOOSE r \in {FillLoop(u) : u \in {t}} : TRUE

FillLoop(s) ==
    IF ~(s.used < nBufferSize /\ s.nFillCount < MaxFillCount) THEN s
    ELSE
      LET pkt == m_lCallback(s.np)
          sz == PacketSize(pkt)
          s1 == [s EXCEPT !.calls = Append(@, s.np)]
          adv(t) == Advance(t, sz)
      IN  IF sz = 0 THEN s1
          ELSE IF s.first <= s.next
          THEN IF WrapNeeded(s.next, sz, nBufferSize)
               THEN IF WrapBlocked(s.first, sz, nBufferSize) THEN s1
                    ELSE FillAgain(adv(
                           [Enqueue(s1, pkt, 0) EXCEPT
                              !.next = sz,
                              !.first = IF @ = SIZE_MAX THEN 0 ELSE @]))
               ELSE FillAgain(adv(
                      [Enqueue(s1, pkt, s.next) EXCEPT !.next = Add(@, sz)]))
          ELSE IF FitsBeforeFirst(s.first, s.next, sz)
          THEN FillAgain(adv(
                 [Enqueue(s1, pkt, s.next) EXCEPT !.next = Add(@, sz)]))
          ELSE s1

\* variant: no request is taken for the one answered last
NeverLastAnswered(req, ne) == FALSE

\* the request is the one that was answered last (line 142)
IsLastAnswered(req, ne) == req = Sub(ne, 1)

\* variant: the range test without its lower end
InCachedRangeNoLower(req, ne, np) == req < np

\* the request lies in the cached range (line 144)
InCachedRange(req, ne, np) == req < np /\ req >= ne

\* variant: an in-range request pops a single packet
PopOne(s) ==
    [s EXCEPT !.pkt = Head(s.q), !.first = Head(s.q).off, !.q = Tail(@),
              !.ne = Add(@, 1)]

\* the pop loop of an in-range request (lines 148-153)
RECURSIVE PopLoop(_)
PopLoop(s) ==
    IF ~(Add(Sub(m_nReqIdx, s.ne), 1) > 0) THEN s
    ELSE IF s.q = <<>> THEN [s EXCEPT !.ub = TRUE]
    ELSE PopLoop([s EXCEPT !.pkt = Head(s.q),
                           !.first = Head(s.q).off,
                           !.q = Tail(@),
                           !.ne = Add(@, 1)])

\* variant: the worker never looks at m_bIsActive
LoopForever == wpc' = "wait"

\* the worker re-evaluates while(m_bIsActive) and waits again (line 140)
LoopAgain == wpc' = IF pre_bIsActive THEN "wait" ELSE "none"

\* the thread starts: it takes the mutex and sets up its locals
\* (lines 117-123)
WorkerEntry ==
    /\ wpc = "spawned"
    /\ wpc' = "prefill"
    /\ qoCache' = <<>>
    /\ vcBuffer' = [k \in 1..nBufferSize |-> ZeroByte]
    /\ nNextExpectedReqIdx' = 0
    /\ nNextPrecacheIdx' = 0
    /\ nFirstBufferIdx' = 0
    /\ nNextBufferIdx' = 0
    /\ calls' = <<>>
    /\ wstep' = "entry"
    /\ UNCHANGED <<nSpurious, pktLen, pre_bIsActive, m_nReqIdx, m_nLastReqIdx,
                   m_oReqPacket, m_oLastReqPacket, nBufferSize, cpc, nIdx,
                   reqNotified, syncNotified, undefined, loaded, ret>>
    /\ CountLoads
    /\ UNCHANGED <<wvars, gvars>>

\* one iteration of the prefill loop (lines 128-139)
WorkerPrefill ==
    /\ wpc = "prefill"
    /\ LET pkt == m_lCallback(nNextPrecacheIdx)
           sz == PacketSize(pkt)
       IN  /\ calls' = <<nNextPrecacheIdx>>
           /\ IF PrefillFits(nNextBufferIdx, sz, nBufferSize)
              THEN /\ qoCache' = Append(qoCache, RingMat(nNextBufferIdx, sz))
                   /\ vcBuffer' = CopyTo(vcBuffer, pkt, nNextBufferIdx)
                   /\ nNextBufferIdx' = Add(nNextBufferIdx, sz)
                   /\ nNextPrecacheIdx' = Add(nNextPrecacheIdx, 1)
                   /\ wstep' = "prefill"
                   /\ UNCHANGED wpc
              ELSE /\ LoopAgain
                   /\ wstep' = "prefill_end"
                   /\ UNCHANGED <<qoCache, vcBuffer, nNextBufferIdx,
                                  nNextPrecacheIdx>>
    /\ UNCHANGED <<nSpurious, pktLen, pre_bIsActive, m_nReqIdx, m_nLastReqIdx,
                   m_oReqPacket, m_oLastReqPacket, nBufferSize,
                   nNextExpectedReqIdx, nFirstBufferIdx, cpc, nIdx,
                   reqNotified, syncNotified, undefined, loaded, ret>>
    /\ CountLoads
    /\ UNCHANGED <<wvars, gvars>>

\* the prefill loop ends on PRECACHE_PREFILL_TIMEOUT_MS (line 128)
WorkerPrefillTimeout ==
    /\ wpc = "prefill"
    /\ LoopAgain
    /\ calls' = <<>>
    /\ wstep' = "prefill_end"
    /\ UNCHANGED <<nSpurious, pktLen, pre_bIsActive, m_nReqIdx, m_nLastReqIdx,
                   m_oReqPacket, m_oLastReqPacket, nBufferSize, qoCache,
                   vcBuffer, nNextExpectedReqIdx, nNextPrecacheIdx,
                   nFirstBufferIdx, nNextBufferIdx, cpc, nIdx, reqNotified,
                   syncNotified, undefined, loaded, ret>>
    /\ CountLoads
    /\ UNCHANGED <<wvars, gvars>>

\* wait_for on m_oReqCondVar returned no_timeout: answer the published
\* request (lines 142-178)
AnswerRequest ==
    /\ reqNotified' = FALSE
    /\ syncNotified' = (cpc = "wait")        \* m_oSyncCondVar.notify_one()
    /\ LoopAgain
    /\ IF IsLastAnswered(m_nReqIdx, nNextExpectedReqIdx)
       THEN /\ wstep' = "republish"
            /\ calls' = <<>>
            /\ UNCHANGED <<m_oReqPacket, qoCache, nNextExpectedReqIdx,
                           nNextPrecacheIdx, nFirstBufferIdx, nNextBufferIdx,
                           undefined, loaded>>
       ELSE IF qoCache # <<>>
                /\ InCachedRange(m_nReqIdx, nNextExpectedReqIdx,
                                 nNextPrecacheIdx)
       THEN LET r == PopLoop([q |-> qoCache, pkt |-> m_oReqPacket,
                              first |-> nFirstBufferIdx,
                              ne |-> nNextExpectedReqIdx, ub |-> FALSE])
            IN  /\ qoCache' = r.q
                /\ m_oReqPacket' = r.pkt
                /\ nFirstBufferIdx' = r.first
                /\ nNextExpectedReqIdx' = r.ne
                /\ undefined' = (undefined \/ r.ub)
                /\ wstep' = "serve"
                /\ calls' = <<>>
                /\ UNCHANGED <<nNextPrecacheIdx, nNextBufferIdx, loaded>>
       ELSE /\ qoCache' = <<>>
            /\ m_oReqPacket' = m_lCallback(m_nReqIdx)
            /\ nFirstBufferIdx' = SIZE_MAX
            /\ nNextBufferIdx' = SIZE_MAX
            /\ nNextExpectedReqIdx' = Add(m_nReqIdx, 1)
            /\ nNextPrecacheIdx' = Add(m_nReqIdx, 1)
            /\ wstep' = "flush"
            /\ calls' = <<m_nReqIdx>>
            /\ loaded' = (cpc = "wait")
            /\ UNCHANGED undefined
    /\ UNCHANGED <<pktLen, pre_bIsActive, m_nReqIdx, m_nLastReqIdx,
                   m_oLastReqPacket, nBufferSize, vcBuffer, cpc, nIdx, ret>>

\* the worker is woken by the caller's notify_one
WorkerRequest ==
    /\ wpc = "wait"
    /\ reqNotified
    /\ AnswerRequest
    /\ UNCHANGED nSpurious
    /\ CountLoads
    /\ UNCHANGED <<wvars, gvars>>

\* wait_for may also return no_timeout without any notification
WorkerSpuriousWake ==
    /\ wpc = "wait"
    /\ ~reqNotified
    /\ nSpurious < MaxSpurious
    /\ AnswerRequest
    /\ nSpurious' = nSpurious + 1
    /\ CountLoads
    /\ UNCHANGED <<wvars, gvars>>

\* wait_for on m_oReqCondVar returned timeout: fill the ring when it is
\* nearly empty (lines 180-222)
WorkerTimeout ==
    /\ wpc = "wait"
    /\ reqNotified' = FALSE
    /\ LoopAgain
    /\ LET used == UsedBufferSize(nFirstBufferIdx, nNextBufferIdx, nBufferSize)
       IN  IF FillWanted(used, nBufferSize)
           THEN LET r == FillLoop([q |-> qoCache, buf |-> vcBuffer,
                                   first |-> nFirstBufferIdx,
                                   next |-> nNextBufferIdx, used |-> used,
                                   np |-> nNextPrecacheIdx, nFillCount |-> 0,
                                   calls |-> <<>>])
                IN  /\ qoCache' = r.q
                    /\ vcBuffer' = r.buf
                    /\ nFirstBufferIdx' = r.first
                    /\ nNextBufferIdx' = r.next
                    /\ nNextPrecacheIdx' = r.np
                    /\ calls' = r.calls
                    /\ wstep' = "fill"
           ELSE /\ calls' = <<>>
                /\ wstep' = "nofill"
                /\ UNCHANGED <<qoCache, vcBuffer, nFirstBufferIdx,
                               nNextBufferIdx, nNextPrecacheIdx>>
    /\ UNCHANGED <<nSpurious, pktLen, pre_bIsActive, m_nReqIdx, m_nLastReqIdx,
                   m_oReqPacket, m_oLastReqPacket, nBufferSize,
                   nNextExpectedReqIdx, cpc, nIdx, syncNotified, undefined,
                   loaded, ret>>
    /\ CountLoads
    /\ UNCHANGED <<wvars, gvars>>


(***************************************************************************)
(* lv::DataPrecacher -- the calling thread.                                *)
(***************************************************************************)

\* the indices the consumer asks for: the batch and one index past its end
ReqIdx == 0..NumPackets

\* the buffer sizes the consumer suggests to startAsyncPrecaching
BufferSizes == {0, MaxBufferSize \div 2, MaxBufferSize, MaxBufferSize + 1}

Mode == IF pre_bIsActive THEN "async" ELSE "bypass"

\* what a completed getPacket(i) call handed to the consumer, and how it
\* compares with the call before it: repeat says that the call before it
\* asked for the same index in the same mode, same that it returned the
\* same bytes, loaded that the loader was invoked for this call
Returned(i, via, m, ld) ==
    [idx |-> i, via |-> via, mode |-> Mode, bytes |-> MatBytes(m),
     repeat |-> (ret.idx = i /\ ret.mode = Mode),
     same |-> (ret.bytes = MatBytes(m)),
     loaded |-> ld]

NoReturn ==
    [idx |-> SIZE_MAX, via |-> "none", mode |-> "none", bytes |-> <<>>,
     repeat |-> FALSE, same |-> FALSE, loaded |-> FALSE]

\* the request equals the memoised one (line 72)
IsRepeat(i) == i = m_nLastReqIdx

\* getPacket, same index as the last call (lines 72-73)
GetPacketMemo(i) ==
    /\ cpc = "idle"
    /\ IsRepeat(i)
    /\ ret' = Returned(i, "memo", m_oLastReqPacket, FALSE)
    /\ loaded' = FALSE
    /\ calls' = <<>>
    /\ UNCHANGED <<nSpurious, pktLen, pre_bIsActive, m_nReqIdx, m_nLastReqIdx,
                   m_oReqPacket, m_oLastReqPacket, nBufferSize, qoCache,
                   vcBuffer, nNextExpectedReqIdx, nNextPrecacheIdx,
                   nFirstBufferIdx, nNextBufferIdx, wpc, cpc, nIdx,
                   reqNotified, syncNotified, undefined, wstep>>
    /\ CountLoads
    /\ UNCHANGED <<wvars, gvars>>

\* getPacket without precaching (lines 74-78)
GetPacketBypass(i) ==
    /\ cpc = "idle"
    /\ ~IsRepeat(i)
    /\ ~pre_bIsActive
    /\ m_oLastReqPacket' = m_lCallback(i)
    /\ m_nLastReqIdx' = i
    /\ ret' = Returned(i, "bypass", m_lCallback(i), TRUE)
    /\ loaded' = FALSE
    /\ calls' = <<i>>
    /\ UNCHANGED <<nSpurious, pktLen, pre_bIsActive, m_nReqIdx, m_oReqPacket,
                   nBufferSize, qoCache, vcBuffer, nNextExpectedReqIdx,
                   nNextPrecacheIdx, nFirstBufferIdx, nNextBufferIdx, wpc,
                   cpc, nIdx, reqNotified, syncNotified, undefined, wstep>>
    /\ CountLoads
    /\ UNCHANGED <<wvars, gvars>>

\* the worker holds m_oSyncMutex except while it waits on m_oReqCondVar
MutexFree == wpc # "prefill"

\* variant: the caller publishes its request without notifying
NotifyNobody == UNCHANGED reqNotified

\* m_oReqCondVar.notify_one(): only a waiting worker receives it
NotifyWorker == reqNotified' = (reqNotified \/ wpc = "wait")

\* getPacket with precaching: publish the request and wait (lines 79-84)
GetPacketRequest(i) ==
    /\ cpc = "idle"
    /\ ~IsRepeat(i)
    /\ pre_bIsActive
    /\ MutexFree
    /\ m_nReqIdx' = i
    /\ nIdx' = i
    /\ NotifyWorker
    /\ syncNotified' = FALSE
    /\ cpc' = "wait"
    /\ calls' = <<>>
    /\ UNCHANGED <<nSpurious, pktLen, pre_bIsActive, m_nLastReqIdx, m_oReqPacket,
                   m_oLastReqPacket, nBufferSize, qoCache, vcBuffer,
                   nNextExpectedReqIdx, nNextPrecacheIdx, nFirstBufferIdx,
                   nNextBufferIdx, wpc, undefined, wstep, loaded, ret>>
    /\ CountLoads
    /\ UNCHANGED <<wvars, gvars>>

\* wait_for on m_oSyncCondVar returned timeout: notify again and wait again
\* (lines 82-89)
GetPacketRetry ==
    /\ cpc = "wait"
    /\ MutexFree
    /\ NotifyWorker
    /\ syncNotified' = FALSE
    /\ calls' = <<>>
    /\ UNCHANGED <<nSpurious, pktLen, pre_bIsActive, m_nReqIdx, m_nLastReqIdx,
                   m_oReqPacket, m_oLastReqPacket, nBufferSize, qoCache,
                   vcBuffer, nNextExpectedReqIdx, nNextPrecacheIdx,
                   nFirstBufferIdx, nNextBufferIdx, wpc, cpc, nIdx,
                   undefined, wstep, loaded, ret>>
    /\ CountLoads
    /\ UNCHANGED <<wvars, gvars>>

\* wait_for returned no_timeout: take the reply slot (lines 89-92)
TakeReply ==
    /\ cpc' = "idle"
    /\ syncNotified' = FALSE
    /\ m_oLastReqPacket' = m_oReqPacket
    /\ m_nLastReqIdx' = nIdx
    /\ ret' = Returned(nIdx, "async", m_oReqPacket, loaded)
    /\ loaded' = FALSE
    /\ calls' = <<>>
    /\ UNCHANGED <<pktLen, pre_bIsActive, m_nReqIdx, m_oReqPacket,
                   nBufferSize, qoCache, vcBuffer, nNextExpectedReqIdx,
                   nNextPrecacheIdx, nFirstBufferIdx, nNextBufferIdx, wpc,
                   nIdx, reqNotified, undefined, wstep>>

\* the caller is woken by the worker's notify_one
GetPacketReply ==
    /\ cpc = "wait"
    /\ MutexFree
    /\ syncNotified
    /\ TakeReply
    /\ UNCHANGED nSpurious
    /\ CountLoads
    /\ UNCHANGED <<wvars, gvars>>

\* wait_for may also return no_timeout without any notification
GetPacketSpuriousWake ==
    /\ cpc = "wait"
    /\ MutexFree
    /\ ~syncNotified
    /\ nSpurious < MaxSpurious
    /\ TakeReply
    /\ nSpurious' = nSpurious + 1
    /\ CountLoads
    /\ UNCHANGED <<wvars, gvars>>

\* startAsyncPrecaching on a precacher that is not active (lines 101-106)
StartAsyncPrecaching(n) ==
    /\ cpc = "idle"
    /\ ~pre_bIsActive
    /\ wpc = "none"
    /\ IF n > 0
       THEN /\ pre_bIsActive' = TRUE
            /\ m_nReqIdx' = SIZE_MAX
            /\ nBufferSize' = IF n > CACHE_MAX_SIZE THEN CACHE_MAX_SIZE ELSE n
            /\ wpc' = "spawned"
       ELSE UNCHANGED <<pre_bIsActive, m_nReqIdx, nBufferSize, wpc>>
    /\ calls' = <<>>
    /\ UNCHANGED <<nSpurious, pktLen, m_nLastReqIdx, m_oReqPacket, m_oLastReqPacket,
                   qoCache, vcBuffer, nNextExpectedReqIdx, nNextPrecacheIdx,
                   nFirstBufferIdx, nNextBufferIdx, cpc, nIdx, reqNotified,
                   syncNotified, undefined, wstep, loaded, ret>>
    /\ CountLoads
    /\ UNCHANGED <<wvars, gvars>>

\* variant: join returns while the worker is still running
JoinedAtOnce == TRUE

\* m_hWorker.join() returns once the worker has left entry (line 112)
Joined == wpc = "none"

\* vcBuffer is destroyed with the worker's locals: a packet that still
\* points into it reads whatever the freed memory holds, the old bytes or
\* others
Freed(buf) ==
    IF m_oReqPacket.data = "ring" \/ m_oLastReqPacket.data = "ring"
    THEN {buf, [k \in 1..Len(buf) |-> ZeroByte]}
    ELSE {<<>>}

\* the worker has returned from entry: its locals are gone, and nothing
\* waits on m_oReqCondVar
WorkerGone ==
    /\ vcBuffer' \in Freed(vcBuffer)
    /\ qoCache' = <<>>
    /\ nNextExpectedReqIdx' = 0
    /\ nNextPrecacheIdx' = 0
    /\ nFirstBufferIdx' = 0
    /\ nNextBufferIdx' = 0
    /\ reqNotified' = FALSE

\* stopAsyncPrecaching on an active precacher: m_bIsActive = false
\* (lines 110-111); then is "join" for a call of stopAsyncPrecaching and
\* "rejoin" for the call made by startAsyncPrecaching (lines 99-100)
StopAsyncPrecaching(then) ==
    /\ cpc = "idle"
    /\ pre_bIsActive
    /\ pre_bIsActive' = FALSE
    /\ cpc' = then
    /\ calls' = <<>>
    /\ UNCHANGED <<nSpurious, pktLen, m_nReqIdx, m_nLastReqIdx, m_oReqPacket,
                   m_oLastReqPacket, nBufferSize, qoCache, vcBuffer,
                   nNextExpectedReqIdx, nNextPrecacheIdx, nFirstBufferIdx,
                   nNextBufferIdx, wpc, nIdx, reqNotified, syncNotified,
                   undefined, wstep, loaded, ret>>
    /\ CountLoads
    /\ UNCHANGED <<wvars, gvars>>

\* stopAsyncPrecaching: m_hWorker.join() returns (lines 112-113)
StopPrecachingJoin ==
    /\ cpc = "join"
    /\ Joined
    /\ cpc' = "idle"
    /\ IF wpc = "none" THEN WorkerGone
       ELSE UNCHANGED <<vcBuffer, qoCache, nNextExpectedReqIdx,
                        nNextPrecacheIdx, nFirstBufferIdx, nNextBufferIdx,
                        reqNotified>>
    /\ calls' = <<>>
    /\ UNCHANGED <<nSpurious, pktLen, pre_bIsActive, m_nReqIdx, m_nLastReqIdx,
                   m_oReqPacket, m_oLastReqPacket, nBufferSize, wpc, nIdx,
                   syncNotified, undefined, wstep, loaded, ret>>
    /\ CountLoads
    /\ UNCHANGED <<wvars, gvars>>

\* startAsyncPrecaching on an active precacher, after its call of
\* stopAsyncPrecaching has joined the worker (lines 101-106)
RestartAsyncPrecaching(n) ==
    /\ cpc = "rejoin"
    /\ Joined
    /\ cpc' = "idle"
    /\ IF wpc = "none" THEN WorkerGone
       ELSE UNCHANGED <<vcBuffer, qoCache, nNextExpectedReqIdx,
                        nNextPrecacheIdx, nFirstBufferIdx, nNextBufferIdx,
                        reqNotified>>
    /\ IF n > 0
       THEN /\ pre_bIsActive' = TRUE
            /\ m_nReqIdx' = SIZE_MAX
            /\ nBufferSize' = IF n > CACHE_MAX_SIZE THEN CACHE_MAX_SIZE ELSE n
            /\ wpc' = "spawned"
       ELSE UNCHANGED <<pre_bIsActive, m_nReqIdx, nBufferSize, wpc>>
    /\ calls' = <<>>
    /\ UNCHANGED <<nSpurious, pktLen, m_nLastReqIdx, m_oReqPacket,
                   m_oLastReqPacket, nIdx, syncNotified, undefined, wstep,
                   loaded, ret>>
    /\ CountLoads
    /\ UNCHANGED <<wvars, gvars>>

\* the packet sizes of the loaders the model ranges over, by index, stated
\* relative to the largest scratch buffer so that they fill it, wrap around
\* its end, run into the first live byte, or leave a hole in the stream
Patterns ==
    {<<MaxBufferSize - 2, 1, MaxBufferSize - 4, 3>>,
     <<MaxBufferSize - 4, 1, 2, 3>>,
     <<2, 1, 1, MaxBufferSize - 3>>,
     <<MaxBufferSize - 2, 1, 2, 1>>,
     <<2, 1, 0, 1>>,
     <<MaxBufferSize, 0, 1, 2>>}

LoaderOf(p) ==
    [i \in 0..(NumPackets - 1) |-> IF i < Len(p) THEN p[i + 1] ELSE 1]

Loaders == {LoaderOf(p) : p \in Patterns}

\* the state after the constructor (lines 60-65)
PrecacherInit ==
    /\ pktLen \in Loaders
    /\ pre_bIsActive = FALSE
    /\ m_nReqIdx = SIZE_MAX
    /\ m_nLastReqIdx = SIZE_MAX
    /\ m_oReqPacket = EmptyMat
    /\ m_oLastReqPacket = EmptyMat
    /\ nBufferSize = 0
    /\ qoCache = <<>>
    /\ vcBuffer = <<>>
    /\ nNextExpectedReqIdx = 0
    /\ nNextPrecacheIdx = 0
    /\ nFirstBufferIdx = 0
    /\ nNextBufferIdx = 0
    /\ wpc = "none"
    /\ cpc = "idle"
    /\ nIdx = SIZE_MAX
    /\ reqNotified = FALSE
    /\ syncNotified = FALSE
    /\ undefined = FALSE
    /\ nSpurious = 0
    /\ calls = <<>>
    /\ wstep = "none"
    /\ loaded = FALSE
    /\ ret = NoReturn
    /\ nLoads = NoCount

PrecacherNext ==
    \/ \E i \in ReqIdx : GetPacketMemo(i)
    \/ \E i \in ReqIdx : GetPacketBypass(i)
    \/ \E i \in ReqIdx : GetPacketRequest(i)
    \/ GetPacketRetry
    \/ GetPacketReply
    \/ GetPacketSpuriousWake
    \/ \E n \in BufferSizes : StartAsyncPrecaching(n)
    \/ WorkerEntry
    \/ WorkerPrefill
    \/ WorkerPrefillTimeout
    \/ WorkerRequest
    \/ WorkerSpuriousWake
    \/ WorkerTimeout

\* the precacher whose waits return on a notification or a timeout only;
\* the wake-ups without notification are left to PrecacherNext
PrecacherRunNext ==
    \/ \E i \in ReqIdx : GetPacketMemo(i)
    \/ \E i \in ReqIdx : GetPacketBypass(i)
    \/ \E i \in ReqIdx : GetPacketRequest(i)
    \/ GetPacketRetry
    \/ GetPacketReply
    \/ \E n \in BufferSizes : StartAsyncPrecaching(n)
    \/ WorkerEntry
    \/ WorkerPrefill
    \/ WorkerPrefillTimeout
    \/ WorkerRequest
    \/ WorkerTimeout

\* the same precacher with its whole life cycle: started, stopped,
\* started again
PrecacherLifeNext ==
    \/ \E i \in ReqIdx : GetPacketMemo(i)
    \/ \E i \in ReqIdx : GetPacketBypass(i)
    \/ \E i \in ReqIdx : GetPacketRequest(i)
    \/ GetPacketRetry
    \/ GetPacketReply
    \/ \E n \in BufferSizes : StartAsyncPrecaching(n)
    \/ WorkerEntry
    \/ WorkerPrefill
    \/ WorkerPrefillTimeout
    \/ WorkerRequest
    \/ WorkerTimeout
    \/ \E then \in {"join", "rejoin"} : StopAsyncPrecaching(then)
    \/ StopPrecachingJoin
    \/ \E n \in BufferSizes : RestartAsyncPrecaching(n)

\* the precacher right after startAsyncPrecaching(FillBufferSize) on a new
\* object, with a batch of FillPackets packets of one byte; FillBufferSize
\* is far below the CACHE_MAX_SIZE of the code
FillInit ==
    /\ pktLen = [i \in 0..(FillPackets - 1) |-> 1]
    /\ pre_bIsActive = TRUE
    /\ m_nReqIdx = SIZE_MAX
    /\ m_nLastReqIdx = SIZE_MAX
    /\ m_oReqPacket = EmptyMat
    /\ m_oLastReqPacket = EmptyMat
    /\ nBufferSize = FillBufferSize
    /\ qoCache = <<>>
    /\ vcBuffer = <<>>
    /\ nNextExpectedReqIdx = 0
    /\ nNextPrecacheIdx = 0
    /\ nFirstBufferIdx = 0
    /\ nNextBufferIdx = 0
    /\ wpc = "spawned"
    /\ cpc = "idle"
    /\ nIdx = SIZE_MAX
    /\ reqNotified = FALSE
    /\ syncNotified = FALSE
    /\ undefined = FALSE
    /\ nSpurious = 0
    /\ calls = <<>>
    /\ wstep = "none"
    /\ loaded = FALSE
    /\ ret = NoReturn
    /\ nLoads = NoCount

\* the started precacher: getPacket calls and the worker
FillNext ==
    \/ \E i \in ReqIdx : GetPacketMemo(i)
    \/ \E i \in ReqIdx : GetPacketRequest(i)
    \/ GetPacketRetry
    \/ GetPacketReply
    \/ WorkerEntry
    \/ WorkerPrefill
    \/ WorkerPrefillTimeout
    \/ WorkerRequest
    \/ WorkerTimeout

\* the buffer size and the packet size of the sequential runs: sixteen
\* packets to a buffer, and two
SeqShapes ==
    {<<SeqBufferSize, SeqPacketSize>>,
     <<SeqSmallBufferSize, SeqLargePacketSize>>}

\* the precacher right after startAsyncPrecaching on a new object whose
\* loader yields packets of one size for every index; the loader calls
\* are counted from here
SeqInit ==
    /\ \E shape \in SeqShapes :
          /\ nBufferSize = shape[1]
          /\ pktLen = [i \in 0..(Modulus - 1) |-> shape[2]]
    /\ pre_bIsActive = TRUE
    /\ m_nReqIdx = SIZE_MAX
    /\ m_nLastReqIdx = SIZE_MAX
    /\ m_oReqPacket = EmptyMat
    /\ m_oLastReqPacket = EmptyMat
    /\ qoCache = <<>>
    /\ vcBuffer = <<>>
    /\ nNextExpectedReqIdx = 0
    /\ nNextPrecacheIdx = 0
    /\ nFirstBufferIdx = 0
    /\ nNextBufferIdx = 0
    /\ wpc = "spawned"
    /\ cpc = "idle"
    /\ nIdx = SIZE_MAX
    /\ reqNotified = FALSE
    /\ syncNotified = FALSE
    /\ undefined = FALSE
    /\ nSpurious = 0
    /\ calls = <<>>
    /\ wstep = "none"
    /\ loaded = FALSE
    /\ ret = NoReturn
    /\ nLoads = 0

\* the index a consumer that reads the batch in order asks for next
NextInOrder == {i \in 0..(SeqPackets - 1) : i = Add(m_nLastReqIdx, 1)}

\* the started precacher with a consumer that asks for the packets
\* 0 .. SeqPackets-1 in order
SeqNext ==
    \/ \E i \in NextInOrder : GetPacketRequest(i)
    \/ GetPacketRetry
    \/ GetPacketReply
    \/ WorkerEntry
    \/ WorkerPrefill
    \/ WorkerPrefillTimeout
    \/ WorkerRequest
    \/ WorkerTimeout

(***************************************************************************)
(* Properties of the precacher.                                            *)
(***************************************************************************)

\* the worker's locals exist
WorkerAlive == wpc \in {"prefill", "wait"}

RECURSIVE SumLen(_)
SumLen(q) == IF q = <<>> THEN 0 ELSE Head(q).len + SumLen(Tail(q))

Disjoint(a, b) == a.off + a.len <= b.off \/ b.off + b.len <= a.off

\* C1: every completed getPacket(i) with i in [0, NumPackets) returned the
\* bytes of load(i), in bypass mode and in async mode, whatever the sequence
\* of requested indices
RoundTrip ==
    (ret.via # "none" /\ ret.idx < NumPackets) => ret.bytes = PacketBytes(ret.idx)

\* the round trip holds as long as no wait returned spuriously
RoundTripWithoutSpuriousWake == nSpurious = 0 => RoundTrip

\* C2: the cache queue holds exactly the packets of the indices
\* nNextExpectedReqIdx .. nNextPrecacheIdx-1, oldest first
QueueCoversRange ==
    WorkerAlive =>
        /\ nNextExpectedReqIdx <= nNextPrecacheIdx
        /\ Len(qoCache) = nNextPrecacheIdx - nNextExpectedReqIdx
        /\ \A j \in 1..Len(qoCache) :
              MatBytes(qoCache[j]) = PacketBytes(nNextExpectedReqIdx + j - 1)

QueueCoversRangeWitness ==
    /\ wstep = "fill"
    /\ nNextExpectedReqIdx > 1
    /\ Len(qoCache) >= 2

\* C3: a packet published from the ring as reply slot keeps its bytes until
\* the worker answers the next different request: no prefill, fill or wrap
\* writes into its region
DeliveredPacketIntact ==
    (WorkerAlive /\ m_oReqPacket.data = "ring") =>
        MatBytes(m_oReqPacket) = PacketBytes(Sub(nNextExpectedReqIdx, 1))

DeliveredPacketIntactWitness ==
    /\ wstep = "fill"
    /\ m_oReqPacket.data = "ring"
    /\ \E j \in 1..Len(qoCache) : qoCache[j].off < m_oReqPacket.off

\* C4: the byte ranges of the packets in the cache queue are pairwise
\* disjoint, so that no packet is cached over a queued one
QueueDisjoint ==
    \A a, b \in 1..Len(qoCache) :
        a < b => Disjoint(qoCache[a], qoCache[b])

QueueDisjointWitness ==
    /\ wstep = "fill"
    /\ \E a, b \in 1..Len(qoCache) : a < b /\ qoCache[b].off < qoCache[a].off

\* C5: the queued packets take at most nBufferSize bytes and each lies
\* inside the scratch buffer
BoundedCache ==
    WorkerAlive =>
        /\ SumLen(qoCache) <= nBufferSize
        /\ \A j \in 1..Len(qoCache) :
              qoCache[j].off + qoCache[j].len <= nBufferSize

BoundedCacheWitness ==
    /\ WorkerAlive
    /\ Len(qoCache) >= 2
    /\ SumLen(qoCache) = nBufferSize - 1

\* C6: a getPacket(i) that follows a getPacket(i) in the same mode returns
\* the memoised packet, with the same bytes, without invoking the loader
IdempotentRepeat ==
    ret.repeat => (ret.via = "memo" /\ ret.same /\ ~ret.loaded)

IdempotentRepeatWitness ==
    /\ ret.repeat
    /\ ret.mode = "async"
    /\ m_oLastReqPacket.data = "ring"
    /\ wstep = "fill"
    /\ \E j \in 1..Len(qoCache) : qoCache[j].off < m_oLastReqPacket.off

NoUndefinedBehaviour == ~undefined

\* C21 (getPacket response): every getPacket call that publishes a request
\* to a started precacher eventually returns; a notification that the
\* worker misses is made up for by the caller, which notifies again after
\* each PRECACHE_REQUEST_TIMEOUT_MS; and the call returns only when its
\* wait_for returns no_timeout, never on a timeout.
GetPacketResponds ==
    /\ (cpc = "wait") ~> (cpc = "idle")
    /\ [][(cpc = "wait" /\ cpc' = "idle") =>
             (syncNotified \/ nSpurious' # nSpurious)]_vars

\* a call returned after the worker missed a notification: the worker was
\* woken by a later notification for the request it had already answered
GetPacketRespondsWitness ==
    /\ cpc = "idle"
    /\ ret.via = "async"
    /\ wstep = "republish"
    /\ ret.bytes = PacketBytes(ret.idx)
    /\ ret.idx = 2


\* a step of the worker in which the loader returned an empty packet
EmptyLoadStep ==
    /\ wpc \in {"prefill", "wait"}
    /\ wstep' \in {"prefill", "prefill_end", "fill"}
    /\ calls' # <<>>
    /\ LoaderLen(calls'[Len(calls')]) = 0

\* C23 (an empty packet is never cached): every packet in qoCache has a
\* size above 0, and an empty packet from the loader ends the prefill or
\* the fill pass: it is the last packet loaded in the step, and the step
\* does not advance nNextPrecacheIdx or nNextBufferIdx for it.
EmptyNeverCached ==
    /\ [](\A j \in 1..Len(qoCache) : qoCache[j].len > 0)
    /\ [][EmptyLoadStep =>
            /\ wstep' \in {"prefill_end", "fill"}
            /\ wpc' # "prefill"
            /\ \A k \in 1..(Len(calls') - 1) : LoaderLen(calls'[k]) > 0
            /\ nNextPrecacheIdx' = calls'[Len(calls')]
            /\ Len(qoCache') = Len(qoCache) + Len(calls') - 1
            /\ Len(calls') = 1 =>
                  UNCHANGED <<qoCache, vcBuffer, nNextPrecacheIdx,
                              nNextBufferIdx, nFirstBufferIdx>>]_vars

\* a fill pass cached a packet and was ended by the empty packet that the
\* loader returned next
EmptyNeverCachedWitness ==
    /\ wstep = "fill"
    /\ Len(calls) >= 2
    /\ LoaderLen(calls[Len(calls)]) = 0
    /\ calls[Len(calls)] < NumPackets
    /\ nNextPrecacheIdx = calls[Len(calls)]
    /\ qoCache # <<>>

\* C24 (precacher shutdown terminates): stopAsyncPrecaching on an active
\* precacher, with no getPacket call in progress, sets m_bIsActive to false
\* and eventually returns, and when it returns the worker has left entry;
\* this holds wherever the worker is when the flag is cleared.
StopPrecachingReturns ==
    /\ (cpc = "join") ~> (cpc = "idle" /\ wpc = "none" /\ ~pre_bIsActive)
    /\ [][(cpc = "join" /\ cpc' = "idle") => wpc = "none"]_vars

\* stopAsyncPrecaching has returned, and the worker left entry straight
\* from its prefill loop: the flag was cleared while it was prefilling
StopPrecachingReturnsWitness ==
    /\ cpc = "idle"
    /\ ~pre_bIsActive
    /\ wpc = "none"
    /\ wstep = "prefill_end"
    /\ ret.mode = "async"

\* C25 (one worker per precacher): whatever the sequence of
\* startAsyncPrecaching and stopAsyncPrecaching calls (start on an active
\* precacher and start with size 0 included), a worker thread is created
\* only when no worker of the precacher is left, and a worker exists
\* whenever m_bIsActive is true.
OneWorkerPerPrecacher ==
    /\ [](pre_bIsActive => wpc # "none")
    /\ [][(~pre_bIsActive /\ pre_bIsActive') =>
             (wpc = "none" /\ wpc' = "spawned")]_vars
    /\ [][(wpc # "spawned" /\ wpc' = "spawned") =>
             (~pre_bIsActive /\ pre_bIsActive')]_vars

\* a precacher that has served a request in an earlier run has a new worker
OneWorkerPerPrecacherWitness ==
    /\ wpc = "spawned"
    /\ pre_bIsActive
    /\ ret.mode = "async"
    /\ wstep \in {"fill", "nofill"}

\* a step in which the worker, woken on m_oReqCondVar, answers the request
\* in m_nReqIdx
WorkerAnswers ==
    /\ wpc = "wait"
    /\ reqNotified \/ nSpurious' = nSpurious + 1
    /\ ~reqNotified'
    /\ wstep' \in {"republish", "serve", "flush"}
    /\ UNCHANGED <<cpc, ret>>

\* the request is the one answered last
AskedAgain == m_nReqIdx = Sub(nNextExpectedReqIdx, 1)

\* the request lies in [nNextExpectedReqIdx, nNextPrecacheIdx) and the
\* queue is not empty
AskedInRange ==
    /\ ~AskedAgain
    /\ nNextExpectedReqIdx <= m_nReqIdx
    /\ m_nReqIdx < nNextPrecacheIdx
    /\ qoCache # <<>>

\* C26 (in-range serve): a request r with nNextExpectedReqIdx <= r <
\* nNextPrecacheIdx and a non-empty queue pops r - nNextExpectedReqIdx + 1
\* packets from the head of the queue, publishes the last one popped, which
\* holds the bytes of packet r, without calling the loader, sets
\* nNextExpectedReqIdx to r + 1 and leaves nNextPrecacheIdx and
\* nNextBufferIdx unchanged.
InRangeServe ==
    [][(WorkerAnswers /\ AskedInRange) =>
          LET n == m_nReqIdx - nNextExpectedReqIdx + 1
          IN  /\ n <= Len(qoCache)
              /\ qoCache' = SubSeq(qoCache, n + 1, Len(qoCache))
              /\ m_oReqPacket' = qoCache[n]
              /\ MatBytesIn(vcBuffer', m_oReqPacket') = PacketBytes(m_nReqIdx)
              /\ calls' = <<>>
              /\ nNextExpectedReqIdx' = m_nReqIdx + 1
              /\ UNCHANGED <<nNextPrecacheIdx, nNextBufferIdx, vcBuffer>>]_vars

\* the worker has served a request two indices after the one before it,
\* popping two packets
InRangeServeWitness ==
    /\ wstep = "serve"
    /\ cpc = "wait"
    /\ syncNotified
    /\ nSpurious = 0
    /\ ret.mode = "async"
    /\ nIdx = ret.idx + 2
    /\ nNextExpectedReqIdx = nIdx + 1
    /\ m_oReqPacket.data = "ring"
    /\ qoCache # <<>>

\* C27 (flush and reload): a request r that is neither the one answered
\* last nor inside [nNextExpectedReqIdx, nNextPrecacheIdx) with a non-empty
\* queue empties the queue, sets nFirstBufferIdx and nNextBufferIdx to
\* size_t(-1), calls the loader once, for r, publishes what it returned and
\* sets nNextExpectedReqIdx and nNextPrecacheIdx to r + 1.
FlushAndReload ==
    [][(WorkerAnswers /\ ~AskedAgain /\ ~AskedInRange) =>
          /\ qoCache' = <<>>
          /\ nFirstBufferIdx' = SIZE_MAX
          /\ nNextBufferIdx' = SIZE_MAX
          /\ calls' = <<m_nReqIdx>>
          /\ m_oReqPacket'.data # "ring"
          /\ MatBytesIn(vcBuffer', m_oReqPacket') = PacketBytes(m_nReqIdx)
          /\ nNextExpectedReqIdx' = Add(m_nReqIdx, 1)
          /\ nNextPrecacheIdx' = Add(m_nReqIdx, 1)]_vars

\* the worker has answered a jump back to an earlier index, with packets
\* in the queue, by flushing
FlushAndReloadWitness ==
    /\ wstep = "flush"
    /\ cpc = "wait"
    /\ syncNotified
    /\ nSpurious = 0
    /\ ret.mode = "async"
    /\ nIdx < ret.idx
    /\ ret.bytes # <<>>
    /\ qoCache = <<>>
    /\ nFirstBufferIdx = SIZE_MAX
    /\ m_oReqPacket.data = "heap"

\* C28 (re-publish): a request equal to nNextExpectedReqIdx - 1, such as
\* the one a caller notifies again after its wait timed out, makes the
\* worker notify m_oSyncCondVar with the reply slot as it is: m_oReqPacket,
\* the queue, nFirstBufferIdx, nNextBufferIdx, nNextExpectedReqIdx and
\* nNextPrecacheIdx are unchanged and the loader is not called, so that no
\* request is served twice from the queue.
Republish ==
    [][(WorkerAnswers /\ AskedAgain) =>
          /\ UNCHANGED <<m_oReqPacket, qoCache, vcBuffer, nFirstBufferIdx,
                         nNextBufferIdx, nNextExpectedReqIdx,
                         nNextPrecacheIdx>>
          /\ calls' = <<>>
          /\ syncNotified' = (cpc = "wait")]_vars

\* the worker has answered the second notification of a request that it
\* had served from the queue
RepublishWitness ==
    /\ wstep = "republish"
    /\ cpc = "wait"
    /\ syncNotified
    /\ nSpurious = 0
    /\ m_oReqPacket.data = "ring"
    /\ nNextExpectedReqIdx = nIdx + 1
    /\ qoCache # <<>>

WorkerTimesOut ==
    /\ wpc = "wait"
    /\ ~reqNotified'
    /\ wstep' \in {"fill", "nofill"}
    /\ UNCHANGED <<cpc, ret, nSpurious, syncNotified>>

\* the bytes of the ring in use: 0 when nFirstBufferIdx is size_t(-1), the
\* distance from nFirstBufferIdx to nNextBufferIdx when the first lies
\* below the second, and the buffer size minus that distance otherwise
UsedBytes ==
    IF nFirstBufferIdx = SIZE_MAX THEN 0
    ELSE IF nFirstBufferIdx < nNextBufferIdx
    THEN nNextBufferIdx - nFirstBufferIdx
    ELSE nBufferSize - nFirstBufferIdx + nNextBufferIdx

\* C30 (fill trigger): when the worker's wait times out it starts a fill
\* pass only if the used bytes are below a quarter of the buffer size;
\* otherwise the step leaves the queue, nFirstBufferIdx, nNextBufferIdx,
\* nNextExpectedReqIdx, nNextPrecacheIdx and m_oReqPacket unchanged and
\* does not call the loader.
FillTrigger ==
    [][WorkerTimesOut =>
          IF 4 * UsedBytes >= nBufferSize - (nBufferSize % 4)
          THEN /\ calls' = <<>>
               /\ UNCHANGED <<qoCache, vcBuffer, nFirstBufferIdx,
                              nNextBufferIdx, nNextExpectedReqIdx,
                              nNextPrecacheIdx, m_oReqPacket>>
          ELSE /\ wstep' = "fill"
               /\ UNCHANGED <<nNextExpectedReqIdx, m_oReqPacket>>]_vars

\* a timeout left the cache as it was although the next packet would have
\* fitted behind the queued ones
FillTriggerWitness ==
    /\ wstep = "nofill"
    /\ qoCache # <<>>
    /\ LoaderLen(nNextPrecacheIdx) > 0
    /\ nFirstBufferIdx < nNextBufferIdx
    /\ nNextBufferIdx + LoaderLen(nNextPrecacheIdx) < nBufferSize
    /\ nNextExpectedReqIdx > 0

\* C22 (end of stream): with a loader that is empty from index NumPackets
\* on, every getPacket(i) with i >= NumPackets on a started precacher
\* returns an empty packet, and the worker keeps running.
EndOfStream ==
    /\ pre_bIsActive => wpc # "none"
    /\ (ret.mode = "async" /\ ret.idx >= NumPackets) => ret.bytes = <<>>

\* a step in which the worker's wait times out and a fill pass runs
FillPass == WorkerTimesOut /\ wstep' = "fill"

\* the write offset and the first live byte as the k-th iteration of the
\* fill pass of this step finds them
TailBefore(k) ==
    IF k = 1 THEN nNextBufferIdx
    ELSE qoCache'[Len(qoCache) + k - 1].off + qoCache'[Len(qoCache) + k - 1].len

HeadBefore(k) ==
    IF k > 1 /\ nFirstBufferIdx = SIZE_MAX THEN 0 ELSE nFirstBufferIdx

NoPlace == SIZE_MAX

\* where the placement rule puts a packet of len bytes, with the write
\* offset at tail and the first live byte at head; a region takes a packet
\* that leaves at least one byte of it free
PlaceOf(tail, head, len) ==
    IF head = SIZE_MAX
    THEN IF len < nBufferSize THEN 0 ELSE NoPlace
    ELSE IF head <= tail
    THEN IF tail + len < nBufferSize THEN tail
         ELSE IF len < head THEN 0 ELSE NoPlace
    ELSE IF tail + len < head THEN tail ELSE NoPlace

\* C31 (placement rule, no straddling): a fill pass writes each packet at
\* the write offset when it fits in the free region behind it, otherwise at
\* offset 0 when it fits before the first live byte (or the ring is empty
\* and the packet is smaller than the buffer), and otherwise stops without
\* caching the packet; every queued packet lies in one range
\* [off, off + len) with off + len <= nBufferSize.
PlacementRule ==
    /\ [](WorkerAlive =>
            \A j \in 1..Len(qoCache) :
                qoCache[j].off + qoCache[j].len <= nBufferSize)
    /\ [][FillPass =>
            LET n == Len(qoCache' ) - Len(qoCache)
            IN  /\ n >= 0
                /\ Len(calls') \in {n, n + 1}
                /\ \A k \in 1..Len(calls') :
                      LET len == LoaderLen(calls'[k])
                          at == PlaceOf(TailBefore(k), HeadBefore(k), len)
                      IN  IF k <= n
                          THEN /\ len > 0
                               /\ at # NoPlace
                               /\ qoCache'[Len(qoCache) + k] = RingMat(at, len)
                          ELSE len = 0 \/ at = NoPlace]_vars

\* a fill pass has written a packet at offset 0 behind a packet that lies
\* further up, and has stopped at the next packet, which it did not cache
PlacementRuleWitness ==
    /\ wstep = "fill"
    /\ Len(calls) >= 2
    /\ nNextPrecacheIdx = calls[Len(calls)]
    /\ Len(qoCache) >= 2
    /\ qoCache[Len(qoCache)].off = 0
    /\ qoCache[Len(qoCache) - 1].off > 0

\* the sizes of the packets 0 .. k-1 of the loader, added up
RECURSIVE SumTo(_)
SumTo(k) == IF k = 0 THEN 0 ELSE SumTo(k - 1) + LoaderLen(k - 1)

\* a step with which the worker leaves its prefill loop
LeavesPrefill == wpc = "prefill" /\ wpc' # "prefill"

\* the packets 0 .. k-1 lie back to back from offset 0, in the queue in
\* this order, and the worker's indices and offsets say so
PrefilledTo(k, q, buf, first, next, ne, np) ==
    /\ Len(q) = k
    /\ \A j \in 1..k :
          /\ q[j] = RingMat(SumTo(j - 1), LoaderLen(j - 1))
          /\ q[j].len > 0
          /\ MatBytesIn(buf, q[j]) = PacketBytes(j - 1)
    /\ first = 0
    /\ next = SumTo(k)
    /\ next < nBufferSize
    /\ ne = 0
    /\ np = k

\* the packet of index k is empty or does not fit behind the packets
\* 0 .. k-1
PrefillMisfit(k) ==
    LoaderLen(k) = 0 \/ SumTo(k) + LoaderLen(k) >= nBufferSize

\* C32 as stated (prefill): when the worker leaves the prefill loop, the
\* queue holds the packets 0 .. k-1 back to back from offset 0,
\* nNextExpectedReqIdx = 0, nNextPrecacheIdx = k, and k is the first index
\* whose packet is empty or does not fit in the remaining bytes.
PrefillStopsAtMisfit ==
    [][LeavesPrefill =>
          /\ PrefilledTo(nNextPrecacheIdx', qoCache', vcBuffer',
                         nFirstBufferIdx', nNextBufferIdx',
                         nNextExpectedReqIdx', nNextPrecacheIdx')
          /\ PrefillMisfit(nNextPrecacheIdx')]_vars

\* C32 (prefill): when the worker leaves the prefill loop, the queue holds
\* the packets 0 .. k-1 back to back from offset 0, nNextExpectedReqIdx = 0
\* and nNextPrecacheIdx = k; the loop is left either at the first index
\* whose packet is empty or does not fit in the remaining bytes, a packet
\* that was loaded and is not cached, or, without loading anything, when
\* PRECACHE_PREFILL_TIMEOUT_MS has elapsed.
PrefillStopsAtMisfitOrTimeout ==
    [][LeavesPrefill =>
          /\ PrefilledTo(nNextPrecacheIdx', qoCache', vcBuffer',
                         nFirstBufferIdx', nNextBufferIdx',
                         nNextExpectedReqIdx', nNextPrecacheIdx')
          /\ UNCHANGED <<qoCache, vcBuffer, nNextBufferIdx, nNextPrecacheIdx>>
          /\ \/ calls' = <<nNextPrecacheIdx>> /\ PrefillMisfit(nNextPrecacheIdx)
             \/ calls' = <<>>]_vars

\* the prefill loop was left on its timeout, with two packets cached and
\* room for the next one
PrefillWitness ==
    /\ wstep = "prefill_end"
    /\ wpc = "wait"
    /\ calls = <<>>
    /\ Len(qoCache) = 2
    /\ nNextPrecacheIdx = 2
    /\ ~PrefillMisfit(2)

\* a step in which a getPacket call that waited on m_oSyncCondVar returns
ReturnsFromWait == cpc = "wait" /\ cpc' = "idle"

\* C35 (no stale reply): a getPacket(i) call on a started precacher returns
\* only after the worker has answered the request for i, and returns the
\* packet that the worker published for i, however the wait on
\* m_oSyncCondVar ends when it does not time out.
NoStaleReply ==
    [][ReturnsFromWait =>
          /\ nNextExpectedReqIdx = Add(nIdx, 1)
          /\ ret'.idx = nIdx
          /\ ret'.bytes = PacketBytes(nIdx)]_vars

\* C36 (loader call bound under sequential access): with a loader whose
\* packets all have S bytes, when getPacket(SeqPackets - 1) returns after
\* getPacket(0), getPacket(1), ... were served in order on a precacher
\* started with buffer size C, the loader has been invoked at least
\* SeqPackets times and at most SeqPackets + C / S times, prefill, fill
\* passes and reloads included.
LoaderCallBound ==
    [][(ReturnsFromWait /\ nIdx = SeqPackets - 1) =>
          /\ nLoads' >= SeqPackets
          /\ nLoads' <= SeqPackets + nBufferSize \div LoaderLen(0)]_vars

\* C39 (no view into the released buffer): a getPacket(i) that hands out
\* the memoised packet hands out the bytes of load(i), also after
\* stopAsyncPrecaching, or a restart through startAsyncPrecaching, has
\* ended the worker whose buffer the packet was served from.
NoReleasedView ==
    ret.via = "memo" => ret.bytes = PacketBytes(ret.idx)

(***************************************************************************)
(* lv::DataWriter.                                                         *)
(***************************************************************************)
Workers == 1..MaxWorkers
Callers == 1..NumCallers
QueueSizes == {0, MaxQueueSize}

NoJob == [idx |-> 0, len |-> 0, tag |-> 0, pos |-> 0]
NoPacket == [idx |-> 0, len |-> 0, tag |-> 0]

\* variant: a drain thread keeps the mutex during the callback
WriterMutexHeldInSink == \A w \in Workers : tpc[w] \notin {"body", "sink"}

\* m_oSyncMutex: a drain thread holds it between steps only in "body";
\* every other critical section is one step
WriterMutexFree == \A w \in Workers : tpc[w] # "body"

\* variant: room is judged without the size of the new packet
HasSpaceNow(len) == m_nQueueSize <= m_nQueueMaxSize

\* the packet fits below the ceiling (lines 608-610)
HasSpace(len) == Add(m_nQueueSize, len) <= m_nQueueMaxSize

\* variant: the position counts the new entry too
PositionPastOf(q, idx) == Cardinality({k \in DOMAIN q : k <= idx})

\* std::distance(m_mQueue.begin(), m_mQueue.find(nIdx)) (line 614)
PositionOf(q, idx) == Cardinality({k \in DOMAIN q : k < idx})

\* the sum of the sizes of the pending packets
RECURSIVE SumOf(_, _)
SumOf(q, keys) ==
    IF keys = {} THEN 0
    ELSE LET k == CHOOSE x \in keys : TRUE
         IN  q[k].len + SumOf(q, keys \ {k})

PendingBytes == SumOf(m_mQueue, DOMAIN m_mQueue)

\* m_mQueue[nIdx] = std::move(oPacketCopy) (line 611)
MapAssign(q, idx, pkt) ==
    [k \in DOMAIN q \cup {idx} |-> IF k = idx THEN pkt ELSE q[k]]

\* m_mQueue.erase(pCurrPacket) (line 673)
MapErase(q, idx) == [k \in DOMAIN q \ {idx} |-> q[k]]

\* variant: the drain thread takes the entry with the largest index
MapEnd(q) == CHOOSE k \in DOMAIN q : \A x \in DOMAIN q : k >= x

\* variant: the drain thread takes the entry stored last
MapNewest(q) == CHOOSE k \in DOMAIN q : \A x \in DOMAIN q : q[k].tag >= q[x].tag

\* m_mQueue.begin() (line 666)
MapBegin(q) == CHOOSE k \in DOMAIN q : \A x \in DOMAIN q : k <= x

\* the callback is invoked with packet pkt
Sunk(pkt) == [pushes EXCEPT ![pkt.tag].sunk = @ + 1]

\* the drain threads that were started
Started == {w \in Workers : tpc[w] # "none"}

\* the queue calls a behaviour may hold
PushBudget == IF Cardinality(Started) > 1 THEN MaxPushesMany ELSE MaxPushes

\* the values m_lCallback may return
CallbackResults == 0..MaxResult

\* a value no size_t takes: the call did not return at line 602
NoResult == Modulus

\* variant: the inactive writer returns without invoking the callback
NoCallback(rec, r) == [rec EXCEPT !.status = "sync", !.ret = 0]

\* return m_lCallback(oPacket,nIdx) on the calling thread (line 602);
\* r is the value the callback returns
CallbackOnCaller(rec, r) ==
    [rec EXCEPT !.status = "sync", !.sunk = 1, !.cb = r, !.ret = r]

\* queue, first part: without async writing the callback is invoked on
\* the calling thread; otherwise the packet is cloned (lines 601-604).
\* The calling threads are interchangeable: a call is made by the first
\* one that is not inside queue.
QueueEnter(c, idx, len) ==
    /\ ~aborted
    /\ ppc[c] = "idle"
    /\ \A d \in Callers : d < c => ppc[d] # "idle"
    /\ Len(pushes) < PushBudget
    /\ LET tag == Len(pushes) + 1
           rec == [idx |-> idx, len |-> len, status |-> "entered",
                   sunk |-> 0, early |-> FALSE, taken |-> FALSE,
                   drained |-> FALSE,
                   late |-> FALSE,
                   race |-> ctl \in {"stop_notify", "stop_join"},
                   cb |-> NoResult, ret |-> NoResult]
       IN  IF ~wr_bIsActive
           THEN /\ \E r \in CallbackResults :
                      pushes' = Append(pushes, CallbackOnCaller(rec, r))
                /\ UNCHANGED <<ppc, job>>
           ELSE /\ pushes' = Append(pushes, rec)
                /\ ppc' = [ppc EXCEPT ![c] = "entered"]
                /\ job' = [job EXCEPT ![c] = [idx |-> idx, len |-> len,
                                              tag |-> tag, pos |-> 0]]
    /\ UNCHANGED <<wr_bIsActive, m_bAllowPacketDrop, m_nQueueMaxSize,
                   m_nQueueSize, m_nQueueCount, m_mQueue, tpc, oPacketData,
                   queueNotified, clearNotified, ctl, aborted>>
    /\ UNCHANGED <<m_vhWorkers, joinError>>
    /\ UNCHANGED <<pvars, gvars>>

\* the indices that drain threads have taken so far
TakenIdx == {pushes[t].idx : t \in {u \in DOMAIN pushes : pushes[u].taken}}

\* the packet is stored (lines 611-615)
Stored(c) ==
    /\ m_mQueue' = MapAssign(m_mQueue, job[c].idx,
                             [idx |-> job[c].idx, len |-> job[c].len,
                              tag |-> job[c].tag])
    /\ m_nQueueSize' = m_nQueueSize + job[c].len
    /\ m_nQueueCount' = m_nQueueCount + 1
    /\ job' = [job EXCEPT ![c].pos = PositionOf(m_mQueue', job[c].idx)]
    /\ pushes' = [pushes EXCEPT
                    ![job[c].tag].status = "accepted",
                    ![job[c].tag].late = \E k \in TakenIdx : k >= job[c].idx]

\* variant: a dropped packet is counted
DroppedButCounted(c) ==
    /\ job' = [job EXCEPT ![c].pos = SIZE_MAX]
    /\ pushes' = [pushes EXCEPT ![job[c].tag].status = "dropped"]
    /\ m_nQueueCount' = m_nQueueCount + 1
    /\ UNCHANGED <<m_mQueue, m_nQueueSize>>

\* the packet is dropped (lines 617-622)
Dropped(c) ==
    /\ job' = [job EXCEPT ![c].pos = SIZE_MAX]
    /\ pushes' = [pushes EXCEPT ![job[c].tag].status = "dropped"]
    /\ UNCHANGED <<m_mQueue, m_nQueueSize, m_nQueueCount>>

\* the packet is stored or dropped, under the mutex (lines 610-622)
StoreOrDrop(c) == IF HasSpace(job[c].len) THEN Stored(c) ELSE Dropped(c)

\* variant: the caller waits for room whatever the drop setting
MustWaitAlways(len) == ~HasSpace(len)

\* the caller has to wait for room (line 608)
MustWait(len) == ~m_bAllowPacketDrop /\ ~HasSpace(len)

\* queue, under the mutex: wait for room unless packets may be dropped
\* (lines 607-609), then store or drop
QueueLocked(c) ==
    /\ ~aborted
    /\ ppc[c] = "entered"
    /\ WriterMutexFree
    /\ IF MustWait(job[c].len)
       THEN /\ ppc' = [ppc EXCEPT ![c] = "waiting"]
            /\ clearNotified' = [clearNotified EXCEPT ![c] = FALSE]
            /\ UNCHANGED <<m_mQueue, m_nQueueSize, m_nQueueCount, job,
                           pushes>>
       ELSE /\ StoreOrDrop(c)
            /\ ppc' = [ppc EXCEPT ![c] = "unlocked"]
            /\ UNCHANGED clearNotified
    /\ UNCHANGED <<wr_bIsActive, m_bAllowPacketDrop, m_nQueueMaxSize, tpc,
                   oPacketData, queueNotified, ctl, aborted>>
    /\ UNCHANGED <<m_vhWorkers, joinError>>
    /\ UNCHANGED <<pvars, gvars>>

\* m_oClearCondVar.wait with its predicate: a notified caller takes the
\* mutex again and goes on only when the packet fits (line 609)
QueueWake(c) ==
    /\ ~aborted
    /\ ppc[c] = "waiting"
    /\ clearNotified[c]
    /\ WriterMutexFree
    /\ clearNotified' = [clearNotified EXCEPT ![c] = FALSE]
    /\ IF HasSpace(job[c].len)
       THEN /\ StoreOrDrop(c)
            /\ ppc' = [ppc EXCEPT ![c] = "unlocked"]
       ELSE UNCHANGED <<m_mQueue, m_nQueueSize, m_nQueueCount, job, pushes,
                        ppc>>
    /\ UNCHANGED <<wr_bIsActive, m_bAllowPacketDrop, m_nQueueMaxSize, tpc,
                   oPacketData, queueNotified, ctl, aborted>>
    /\ UNCHANGED <<m_vhWorkers, joinError>>
    /\ UNCHANGED <<pvars, gvars>>

\* a drain thread blocked in m_oQueueCondVar.wait
Blocked(w) == tpc[w] = "waiting" /\ ~queueNotified[w]

\* queue, after the mutex is released: m_oQueueCondVar.notify_one() wakes
\* drain thread w (0: no thread is blocked), and queue returns
\* (lines 624-629). The blocked threads are all in the same state, so
\* the one woken is taken to be the first of them.
QueueReturn(c, w) ==
    /\ ~aborted
    /\ ppc[c] = "unlocked"
    /\ IF w = 0
       THEN /\ \A x \in Workers : ~Blocked(x)
            /\ UNCHANGED queueNotified
       ELSE /\ Blocked(w)
            /\ \A x \in Workers : x < w => ~Blocked(x)
            /\ queueNotified' = [queueNotified EXCEPT ![w] = TRUE]
    /\ ppc' = [ppc EXCEPT ![c] = "idle"]
    /\ pushes' = [pushes EXCEPT
                     ![job[c].tag].status =
                        IF @ = "accepted" THEN "returned" ELSE @,
                     ![job[c].tag].ret = job[c].pos]
    /\ job' = [job EXCEPT ![c] = NoJob]
    /\ UNCHANGED <<wr_bIsActive, m_bAllowPacketDrop, m_nQueueMaxSize,
                   m_nQueueSize, m_nQueueCount, m_mQueue, tpc, oPacketData,
                   clearNotified, ctl, aborted>>
    /\ UNCHANGED <<m_vhWorkers, joinError>>
    /\ UNCHANGED <<pvars, gvars>>

\* m_vhWorkers.emplace_back for n new threads (lines 643-644)
EmplaceBack(v, n) == v \o [k \in 1..n |-> [w |-> k, joinable |-> TRUE]]

\* startAsyncWriting past its call of stopAsyncWriting (lines 635-645)
StartBody(size, drop, n) ==
    /\ IF size > 0
       THEN /\ wr_bIsActive' = TRUE
            /\ m_bAllowPacketDrop' = drop
            /\ m_nQueueMaxSize' =
                  IF size > CACHE_MAX_SIZE THEN CACHE_MAX_SIZE ELSE size
            /\ m_nQueueSize' = 0
            /\ m_nQueueCount' = 0
            /\ m_mQueue' = <<>>
            /\ tpc' = [w \in Workers |-> IF w <= n THEN "start" ELSE "none"]
            /\ m_vhWorkers' = EmplaceBack(m_vhWorkers, n)
            /\ ctl' = "started"
       ELSE UNCHANGED <<wr_bIsActive, m_bAllowPacketDrop, m_nQueueMaxSize,
                        m_nQueueSize, m_nQueueCount, m_mQueue, tpc,
                        m_vhWorkers, ctl>>
    /\ UNCHANGED <<oPacketData, queueNotified, ppc, job, clearNotified,
                   aborted, joinError, pushes>>
    /\ UNCHANGED <<pvars, gvars>>

\* startAsyncWriting on a writer that was never started (lines 635-645)
StartAsyncWriting(size, drop, n) ==
    /\ ~aborted
    /\ ctl = "new"
    /\ \A c \in Callers : ppc[c] = "idle"
    /\ StartBody(size, drop, n)

\* startAsyncWriting on a writer that has been stopped, by an earlier call
\* of stopAsyncWriting or by the call that startAsyncWriting itself makes
\* on an active writer (lines 633-645)
RestartAsyncWriting(size, drop, n) ==
    /\ ~aborted
    /\ ctl = "stopped"
    /\ \A c \in Callers : ppc[c] = "idle"
    /\ StartBody(size, drop, n)

\* stopAsyncWriting: m_bIsActive = false (lines 649-650)
StopSetInactive ==
    /\ ~aborted
    /\ ctl = "started"
    /\ wr_bIsActive' = FALSE
    /\ ctl' = "stop_notify"
    /\ pushes' = [t \in DOMAIN pushes |->
                    [pushes[t] EXCEPT !.race =
                        pushes[t].status \in {"entered", "accepted"}]]
    /\ UNCHANGED <<m_bAllowPacketDrop, m_nQueueMaxSize, m_nQueueSize,
                   m_nQueueCount, m_mQueue, tpc, oPacketData, queueNotified,
                   ppc, job, clearNotified, aborted>>
    /\ UNCHANGED <<m_vhWorkers, joinError>>
    /\ UNCHANGED <<pvars, gvars>>

\* stopAsyncWriting: m_oQueueCondVar.notify_all() (line 651)
StopNotifyAll ==
    /\ ~aborted
    /\ ctl = "stop_notify"
    /\ queueNotified' =
          [w \in Workers |-> queueNotified[w] \/ tpc[w] = "waiting"]
    /\ ctl' = "stop_join"
    /\ UNCHANGED <<wr_bIsActive, m_bAllowPacketDrop, m_nQueueMaxSize,
                   m_nQueueSize, m_nQueueCount, m_mQueue, tpc, oPacketData,
                   ppc, job, clearNotified, aborted, pushes>>
    /\ UNCHANGED <<m_vhWorkers, joinError>>
    /\ UNCHANGED <<pvars, gvars>>

\* stopAsyncWriting: every thread of m_vhWorkers is joined (lines 652-653)
StopJoin ==
    /\ ~aborted
    /\ ctl = "stop_join"
    /\ \A k \in DOMAIN m_vhWorkers : m_vhWorkers[k].joinable
    /\ \A w \in Workers : tpc[w] \in {"none", "done"}
    /\ ctl' = "stopped"
    /\ m_vhWorkers' = [k \in DOMAIN m_vhWorkers |->
                         [m_vhWorkers[k] EXCEPT !.joinable = FALSE]]
    /\ pushes' = [t \in DOMAIN pushes |->
                    [pushes[t] EXCEPT !.early = (pushes[t].status = "returned")]]
    /\ UNCHANGED <<wr_bIsActive, m_bAllowPacketDrop, m_nQueueMaxSize,
                   m_nQueueSize, m_nQueueCount, m_mQueue, tpc, oPacketData,
                   queueNotified, ppc, job, clearNotified, aborted,
                   joinError>>
    /\ UNCHANGED <<pvars, gvars>>

\* stopAsyncWriting: the loop over m_vhWorkers comes to a thread object
\* that is not joinable, and std::thread::join throws std::system_error
\* (lines 652-653); the thread objects before it have been joined
StopJoinThrows ==
    /\ ~aborted
    /\ ctl = "stop_join"
    /\ \E k \in DOMAIN m_vhWorkers :
          /\ ~m_vhWorkers[k].joinable
          /\ \A j \in 1..(k - 1) :
                /\ m_vhWorkers[j].joinable
                /\ tpc[m_vhWorkers[j].w] = "done"
          /\ m_vhWorkers' = [j \in DOMAIN m_vhWorkers |->
                               IF j < k
                               THEN [m_vhWorkers[j] EXCEPT !.joinable = FALSE]
                               ELSE m_vhWorkers[j]]
    /\ joinError' = TRUE
    /\ ctl' = "failed"
    /\ UNCHANGED <<wr_bIsActive, m_bAllowPacketDrop, m_nQueueMaxSize,
                   m_nQueueSize, m_nQueueCount, m_mQueue, tpc, oPacketData,
                   queueNotified, ppc, job, clearNotified, aborted, pushes>>
    /\ UNCHANGED <<pvars, gvars>>

\* variant: the drain thread loops only while the writer is active
KeepDrainingWhileActive == wr_bIsActive

\* the loop condition of the drain thread (line 662)
KeepDraining == wr_bIsActive \/ m_nQueueCount > 0

\* the drain thread takes the first entry of the map, or fails an
\* assertion (lines 666-675)
TakeFirst(w) ==
    IF DOMAIN m_mQueue = {}
    THEN /\ aborted' = TRUE
         /\ UNCHANGED <<m_mQueue, m_nQueueSize, m_nQueueCount, tpc,
                        oPacketData, pushes>>
    ELSE LET k == MapBegin(m_mQueue)
             pkt == m_mQueue[k]
         IN  IF ~(pkt.len <= m_nQueueSize)
             THEN /\ aborted' = TRUE
                  /\ UNCHANGED <<m_mQueue, m_nQueueSize, m_nQueueCount, tpc,
                                 oPacketData, pushes>>
             ELSE /\ m_nQueueSize' = m_nQueueSize - pkt.len
                  /\ m_mQueue' = MapErase(m_mQueue, k)
                  /\ m_nQueueCount' = m_nQueueCount - 1
                  /\ oPacketData' = [oPacketData EXCEPT ![w] = pkt]
                  /\ tpc' = [tpc EXCEPT ![w] = "sink"]
                  /\ pushes' = [pushes EXCEPT
                                    ![pkt.tag].taken = TRUE,
                                    ![pkt.tag].drained = ~wr_bIsActive]
                  /\ UNCHANGED aborted

\* the drain thread takes the mutex (at its start, or again after a
\* callback) and evaluates the loop condition; with an entry counted it
\* goes on to take one without releasing the mutex (lines 658-675)
DrainLoop(w) ==
    /\ ~aborted
    /\ tpc[w] = "start"
    /\ WriterMutexFree
    /\ IF KeepDraining /\ m_nQueueCount > 0
       THEN TakeFirst(w)
       ELSE /\ tpc' = [tpc EXCEPT ![w] =
                          IF KeepDraining THEN "body" ELSE "done"]
            /\ UNCHANGED <<m_mQueue, m_nQueueSize, m_nQueueCount,
                           oPacketData, aborted, pushes>>
    /\ UNCHANGED <<wr_bIsActive, m_bAllowPacketDrop, m_nQueueMaxSize,
                   queueNotified, ppc, job, clearNotified, ctl>>
    /\ UNCHANGED <<m_vhWorkers, joinError>>
    /\ UNCHANGED <<pvars, gvars>>

\* in the loop body with nothing counted: m_oQueueCondVar.wait releases
\* the mutex (lines 663-664)
DrainBody(w) ==
    /\ ~aborted
    /\ tpc[w] = "body"
    /\ tpc' = [tpc EXCEPT ![w] = "waiting"]
    /\ queueNotified' = [queueNotified EXCEPT ![w] = FALSE]
    /\ UNCHANGED <<wr_bIsActive, m_bAllowPacketDrop, m_nQueueMaxSize,
                   m_nQueueSize, m_nQueueCount, m_mQueue, oPacketData, ppc,
                   job, clearNotified, ctl, aborted, pushes>>
    /\ UNCHANGED <<m_vhWorkers, joinError>>
    /\ UNCHANGED <<pvars, gvars>>

\* the wait on m_oQueueCondVar ends: with the mutex again, the thread
\* takes an entry if one is counted, else evaluates the loop condition
\* (lines 664-665, 662)
DrainWake(w) ==
    /\ ~aborted
    /\ tpc[w] = "waiting"
    /\ queueNotified[w]
    /\ WriterMutexFree
    /\ queueNotified' = [queueNotified EXCEPT ![w] = FALSE]
    /\ IF m_nQueueCount > 0
       THEN TakeFirst(w)
       ELSE /\ tpc' = [tpc EXCEPT ![w] =
                          IF KeepDraining THEN "body" ELSE "done"]
            /\ UNCHANGED <<m_mQueue, m_nQueueSize, m_nQueueCount,
                           oPacketData, aborted, pushes>>
    /\ UNCHANGED <<wr_bIsActive, m_bAllowPacketDrop, m_nQueueMaxSize, ppc,
                   job, clearNotified, ctl>>
    /\ UNCHANGED <<m_vhWorkers, joinError>>
    /\ UNCHANGED <<pvars, gvars>>

\* outside the mutex: the callback, then m_oClearCondVar.notify_all()
\* (lines 675-677)
DrainSink(w) ==
    /\ ~aborted
    /\ tpc[w] = "sink"
    /\ pushes' = Sunk(oPacketData[w])
    /\ oPacketData' = [oPacketData EXCEPT ![w] = NoPacket]
    /\ clearNotified' =
          [c \in Callers |-> clearNotified[c] \/ ppc[c] = "waiting"]
    /\ tpc' = [tpc EXCEPT ![w] = "start"]
    /\ UNCHANGED <<wr_bIsActive, m_bAllowPacketDrop, m_nQueueMaxSize,
                   m_nQueueSize, m_nQueueCount, m_mQueue, queueNotified,
                   ppc, job, ctl, aborted>>
    /\ UNCHANGED <<m_vhWorkers, joinError>>
    /\ UNCHANGED <<pvars, gvars>>

\* the state after the constructor (lines 587-594)
WriterInit ==
    /\ wr_bIsActive = FALSE
    /\ m_bAllowPacketDrop = FALSE
    /\ m_nQueueMaxSize = 0
    /\ m_nQueueSize = 0
    /\ m_nQueueCount = 0
    /\ m_mQueue = <<>>
    /\ tpc = [w \in Workers |-> "none"]
    /\ oPacketData = [w \in Workers |-> NoPacket]
    /\ queueNotified = [w \in Workers |-> FALSE]
    /\ ppc = [c \in Callers |-> "idle"]
    /\ job = [c \in Callers |-> NoJob]
    /\ clearNotified = [c \in Callers |-> FALSE]
    /\ ctl = "new"
    /\ aborted = FALSE
    /\ m_vhWorkers = <<>>
    /\ joinError = FALSE
    /\ pushes = <<>>

WriterNext ==
    \/ \E c \in Callers, idx \in 0..MaxIdx, len \in 1..MaxLen :
          QueueEnter(c, idx, len)
    \/ \E c \in Callers : QueueLocked(c)
    \/ \E c \in Callers : QueueWake(c)
    \/ \E c \in Callers, w \in 0..MaxWorkers : QueueReturn(c, w)
    \/ \E size \in QueueSizes, drop \in BOOLEAN, n \in 1..MaxWorkers :
          StartAsyncWriting(size, drop, n)
    \/ StopSetInactive
    \/ StopNotifyAll
    \/ StopJoin
    \/ \E w \in Workers : DrainLoop(w)
    \/ \E w \in Workers : DrainBody(w)
    \/ \E w \in Workers : DrainWake(w)
    \/ \E w \in Workers : DrainSink(w)

\* the writer with its whole life cycle: started, stopped, started again,
\* stopped again; the packets queued meanwhile have one index and the
\* largest size
WriterLifeNext ==
    \/ \E c \in Callers : QueueEnter(c, MaxIdx, MaxLen)
    \/ \E c \in Callers : QueueLocked(c)
    \/ \E c \in Callers : QueueWake(c)
    \/ \E c \in Callers, w \in 0..MaxWorkers : QueueReturn(c, w)
    \/ \E size \in QueueSizes, drop \in BOOLEAN, n \in 1..MaxWorkers :
          StartAsyncWriting(size, drop, n)
    \/ \E size \in QueueSizes, drop \in BOOLEAN, n \in 1..MaxWorkers :
          RestartAsyncWriting(size, drop, n)
    \/ StopSetInactive
    \/ StopNotifyAll
    \/ StopJoin
    \/ StopJoinThrows
    \/ \E w \in Workers : DrainLoop(w)
    \/ \E w \in Workers : DrainBody(w)
    \/ \E w \in Workers : DrainWake(w)
    \/ \E w \in Workers : DrainSink(w)


(***************************************************************************)
(* Properties of the writer.                                               *)
(***************************************************************************)

\* a queue call that is accepted in this step for an index already pending
ReplacingPush(c) ==
    /\ ppc[c] \in {"entered", "waiting"}
    /\ ppc'[c] = "unlocked"
    /\ job'[c].pos # SIZE_MAX
    /\ job[c].idx \in DOMAIN m_mQueue

\* C7 (W1): whenever the mutex is free, m_nQueueSize is the sum of the
\* sizes of the packets pending in m_mQueue.
QueueSizeIsPendingBytes == WriterMutexFree => m_nQueueSize = PendingBytes

\* C8 (last write wins): a push accepted for an index already pending
\* replaces the packet of that entry, leaves the number of entries as it
\* was, and changes m_nQueueSize by the new size minus the old one.
LastWriteWins ==
    [][\A c \in Callers :
          ReplacingPush(c) =>
              /\ m_mQueue'[job[c].idx].tag = job[c].tag
              /\ DOMAIN m_mQueue' = DOMAIN m_mQueue
              /\ m_nQueueSize' =
                    m_nQueueSize + job[c].len - m_mQueue[job[c].idx].len]_vars

\* C9 (bounded memory): on a started writer neither m_nQueueSize nor the
\* bytes pending in m_mQueue exceed m_nQueueMaxSize.
QueueBounded ==
    ctl # "new" =>
        /\ m_nQueueSize <= m_nQueueMaxSize
        /\ PendingBytes <= m_nQueueMaxSize

\* two pending packets fill the queue of a started writer to its ceiling
QueueBoundedWitness ==
    /\ ctl = "started"
    /\ m_nQueueSize = m_nQueueMaxSize
    /\ Cardinality(DOMAIN m_mQueue) = 2
    /\ PendingBytes = m_nQueueMaxSize

\* C10 (no-drop policy): without packet drop, when stopAsyncWriting has
\* returned, every queue call that had returned an acceptance position by
\* then has had its packet passed to the callback exactly once.
NoDropDelivery ==
    (ctl = "stopped" /\ ~m_bAllowPacketDrop) =>
        \A t \in DOMAIN pushes : pushes[t].early => pushes[t].sunk = 1

\* the assertions of the drain thread hold
NoAssertionFailure == ~aborted

\* every drain thread that was started has left its loop
AllDrainThreadsGone == \A w \in Workers : tpc[w] \in {"none", "done"}

\* C11 (W3): an entry accepted into m_mQueue leaves it only through a
\* drain thread that passes it to the callback, so that once
\* stopAsyncWriting has joined every drain thread nothing is pending.
NoEntryStranded ==
    (ctl = "stopped" /\ AllDrainThreadsGone) => DOMAIN m_mQueue = {}

\* C12 (shutdown terminates): once stopAsyncWriting has set m_bIsActive to
\* false it returns, unless a drain thread fails an assertion: every drain
\* thread, waiting or about to wait, leaves its loop and is joined.
StopReturns == (ctl = "stop_notify") ~> (ctl = "stopped" \/ aborted)

\* no queue call was in progress when stopAsyncWriting was called, and
\* none was made before it returned
QuietStop == \A t \in DOMAIN pushes : ~pushes[t].race

\* C13 (drain on stop): with no queue call concurrent with
\* stopAsyncWriting, a drain thread leaves its loop only with nothing
\* pending, and when stopAsyncWriting has returned m_mQueue is empty,
\* m_nQueueSize is 0 and every packet accepted before has been passed to
\* the callback.
DrainOnStop ==
    QuietStop =>
        /\ (\E w \in Workers : tpc[w] = "done") => DOMAIN m_mQueue = {}
        /\ ctl = "stopped" =>
              /\ DOMAIN m_mQueue = {}
              /\ m_nQueueSize = 0
              /\ \A t \in DOMAIN pushes :
                    pushes[t].status = "returned" => pushes[t].sunk = 1

\* stopAsyncWriting has returned after the drain thread passed on, with
\* the writer already inactive, the packets that were still pending
DrainOnStopWitness ==
    /\ QuietStop
    /\ ctl = "stopped"
    /\ Cardinality({t \in DOMAIN pushes :
                      pushes[t].status = "returned" /\ pushes[t].sunk = 1
                        /\ pushes[t].drained}) >= 2

\* drain thread w takes an entry from m_mQueue in this step
Takes(w) == tpc[w] # "sink" /\ tpc'[w] = "sink"

\* C14 (selection order): the entry a drain thread takes is the one with
\* the smallest index of all entries pending at that moment, and the same
\* step removes it from m_mQueue.
SmallestFirst ==
    [][\A w \in Workers :
          Takes(w) =>
              /\ oPacketData'[w].idx \in DOMAIN m_mQueue
              /\ \A k \in DOMAIN m_mQueue : oPacketData'[w].idx <= k
              /\ oPacketData'[w] = m_mQueue[oPacketData'[w].idx]
              /\ DOMAIN m_mQueue' = DOMAIN m_mQueue \ {oPacketData'[w].idx}]_vars

\* a drain thread holds the packet of index 0, stored after the packet of
\* index 1 that is still pending
SmallestFirstWitness ==
    \E w \in Workers :
        /\ tpc[w] = "sink"
        /\ oPacketData[w].idx = 0
        /\ 1 \in DOMAIN m_mQueue
        /\ m_mQueue[1].tag < oPacketData[w].tag

\* one drain thread was started
SingleWorker == Cardinality(Started) = 1

\* C15 (single worker, as stated): with a single drain thread the indices
\* passed to the callback are strictly ascending, whatever the order of
\* the queue calls: every entry taken has an index larger than all indices
\* taken before.
SingleWorkerAscending ==
    [][\A w \in Workers :
          (SingleWorker /\ Takes(w)) =>
              \A k \in TakenIdx : k < oPacketData'[w].idx]_vars

\* C15 (amended): with a single drain thread the indices passed to the
\* callback are strictly ascending as long as no packet is stored with an
\* index that is not larger than every index already taken.
SingleWorkerAscendingInOrder ==
    [][\A w \in Workers :
          (SingleWorker /\ Takes(w) /\ ~pushes[oPacketData'[w].tag].late) =>
              \A k \in TakenIdx : k < oPacketData'[w].idx]_vars

\* the single drain thread has passed on index 0 and then index 1, which
\* were queued in the opposite order
SingleWorkerAscendingWitness ==
    /\ SingleWorker
    /\ \E t, u \in DOMAIN pushes :
          /\ t < u
          /\ pushes[t].idx > pushes[u].idx
          /\ pushes[t].sunk = 1 /\ pushes[u].sunk = 1
          /\ pushes[t].taken /\ pushes[u].taken
          /\ ~pushes[t].late /\ ~pushes[u].late

\* the queue call of caller c leaves its critical section in this step
Decides(c) == ppc[c] \in {"entered", "waiting"} /\ ppc'[c] = "unlocked"

\* C16 (drop policy): with packet drop allowed a queue call never waits
\* for room: with the mutex it either stores the packet and returns its
\* position in m_mQueue (when m_nQueueSize + size <= m_nQueueMaxSize) or
\* returns SIZE_MAX (otherwise).
DropNeverWaits ==
    [][\A c \in Callers :
          (m_bAllowPacketDrop /\ ppc[c] = "entered" /\ ppc'[c] # "entered") =>
              /\ Decides(c)
              /\ IF m_nQueueSize + job[c].len <= m_nQueueMaxSize
                 THEN /\ job[c].idx \in DOMAIN m_mQueue'
                      /\ m_mQueue'[job[c].idx].tag = job[c].tag
                      /\ job'[c].pos = PositionOf(m_mQueue', job[c].idx)
                      /\ job'[c].pos # SIZE_MAX
                 ELSE job'[c].pos = SIZE_MAX]_vars

\* with packet drop allowed, one queue call was accepted and another one
\* has got SIZE_MAX
DropNeverWaitsWitness ==
    /\ m_bAllowPacketDrop
    /\ \E c \in Callers : ppc[c] = "unlocked" /\ job[c].pos = SIZE_MAX
    /\ \E t \in DOMAIN pushes : pushes[t].status = "returned"

\* the packet of queue call t is pending or in the hands of a drain thread
InWriter(t) ==
    \/ \E k \in DOMAIN m_mQueue : m_mQueue[k].tag = t
    \/ \E w \in Workers : tpc[w] = "sink" /\ oPacketData[w].tag = t

\* a dropped packet is never pending, taken or passed to the callback
DroppedNeverSunk ==
    \A t \in DOMAIN pushes :
        pushes[t].status = "dropped" =>
            (pushes[t].sunk = 0 /\ ~pushes[t].taken /\ ~InWriter(t))

\* what a drain thread takes was accepted by a queue call, and it is
\* passed to the callback at most once
SunkWereAccepted ==
    \A t \in DOMAIN pushes :
        /\ (pushes[t].taken \/ InWriter(t)) =>
              pushes[t].status \in {"accepted", "returned"}
        /\ pushes[t].sunk <= 1
        /\ (pushes[t].sunk = 1 /\ pushes[t].status # "sync") => pushes[t].taken

\* C17 (a dropped push changes nothing): a queue call that returns
\* SIZE_MAX leaves m_mQueue, m_nQueueSize and m_nQueueCount as they were
\* and its packet never reaches the callback; every packet that a drain
\* thread passes to the callback in drop mode was accepted by a queue
\* call, and is passed on once.
DropChangesNothing ==
    /\ [](m_bAllowPacketDrop => (DroppedNeverSunk /\ SunkWereAccepted))
    /\ [][\A c \in Callers :
             (Decides(c) /\ job'[c].pos = SIZE_MAX) =>
                 UNCHANGED <<m_mQueue, m_nQueueSize, m_nQueueCount>>]_vars

\* in drop mode one queue call has returned SIZE_MAX and the packet of
\* another one has been passed to the callback
DropChangesNothingWitness ==
    /\ m_bAllowPacketDrop
    /\ \A c \in Callers : ppc[c] = "idle"
    /\ \E t, u \in DOMAIN pushes :
          /\ pushes[t].status = "dropped"
          /\ pushes[u].status = "returned" /\ pushes[u].sunk = 1
          /\ t > u

\* caller c waits for room for a packet that fits an empty queue
WaitsForRoom(c) ==
    /\ ppc[c] = "waiting"
    /\ ~m_bAllowPacketDrop
    /\ job[c].len <= m_nQueueMaxSize

\* C18 (backpressure liveness): without packet drop, a queue call that
\* waits for room with a packet no larger than m_nQueueMaxSize eventually
\* stores the packet and returns; so it is never left waiting once every
\* drain thread has gone, when nothing can make room or notify
\* m_oClearCondVar any more.
NoCallerLeftWaiting ==
    ~(/\ \E c \in Callers : WaitsForRoom(c) /\ ~clearNotified[c]
      /\ ctl \in {"stop_join", "stopped"}
      /\ AllDrainThreadsGone)

\* the liveness form of the same property, for WriterFairSpec
BackpressureReturns ==
    \A c \in Callers : WaitsForRoom(c) ~> (ppc[c] = "idle")

\* several drain threads were started
SeveralWorkers == Cardinality(Started) > 1

\* no two queue calls carry the same index
DistinctIndices ==
    \A s, t \in DOMAIN pushes : s # t => pushes[s].idx # pushes[t].idx

\* C19 (exactly-once with several workers): with more than one drain
\* thread and distinct indices, no accepted packet is passed to the
\* callback twice, and once stopAsyncWriting has joined the drain threads
\* every accepted packet has been passed to it once.
ExactlyOnceSeveralWorkers ==
    (SeveralWorkers /\ DistinctIndices) =>
        \A t \in DOMAIN pushes :
            /\ pushes[t].sunk <= 1
            /\ (/\ ctl = "stopped"
                /\ pushes[t].status \in {"accepted", "returned"})
                  => pushes[t].sunk = 1

\* a step in which queue is called while m_bIsActive is false
SyncPathStep ==
    (Len(pushes') = Len(pushes) + 1 /\ ~wr_bIsActive) =>
        LET rec == pushes'[Len(pushes')]
        IN  /\ rec.status = "sync"
            /\ rec.sunk = 1
            /\ rec.cb \in CallbackResults
            /\ rec.ret = rec.cb
            /\ UNCHANGED <<m_mQueue, m_nQueueSize, m_nQueueCount, ppc, job,
                           tpc, oPacketData>>

\* C20 (synchronous path): a queue call made while m_bIsActive is false
\* (never started, started with size 0, or stopped) invokes the callback
\* once on the calling thread before it returns, returns the callback's
\* value, and leaves m_mQueue, m_nQueueSize and m_nQueueCount unchanged;
\* no drain thread ever takes its packet.
SynchronousPath ==
    /\ [](\A t \in DOMAIN pushes :
             pushes[t].status = "sync" =>
                 /\ pushes[t].sunk = 1
                 /\ ~pushes[t].taken
                 /\ pushes[t].ret = pushes[t].cb)
    /\ [][SyncPathStep]_vars

\* a queue call took the synchronous path after stopAsyncWriting had set
\* m_bIsActive to false, while a packet accepted earlier was still pending
SynchronousPathWitness ==
    /\ DOMAIN m_mQueue # {}
    /\ \E u, t \in DOMAIN pushes :
          /\ u < t
          /\ pushes[u].status \in {"accepted", "returned"}
          /\ pushes[t].status = "sync"
          /\ pushes[t].sunk = 1
          /\ pushes[t].ret = MaxResult

\* a step in which the packet of caller c is stored in m_mQueue
Accepts(c) ==
    /\ ppc[c] \in {"entered", "waiting"}
    /\ ppc'[c] = "unlocked"
    /\ pushes'[job[c].tag].status = "accepted"

\* a step in which the queue call of caller c returns
Returns(c) == ppc[c] = "unlocked" /\ ppc'[c] = "idle"

\* C33 (acceptance position): a queue call on a started writer whose packet
\* is stored returns the number of entries of m_mQueue with an index below
\* nIdx at the moment the packet is stored, which is never SIZE_MAX; a call
\* whose packet is dropped returns SIZE_MAX.
AcceptancePosition ==
    [][\A c \in Callers :
          /\ Accepts(c) =>
                /\ job'[c].pos =
                      Cardinality({k \in DOMAIN m_mQueue : k < job[c].idx})
                /\ job'[c].pos # SIZE_MAX
          /\ Returns(c) =>
                LET rec == pushes'[job[c].tag]
                IN  /\ rec.ret = job[c].pos
                    /\ rec.status = "returned" <=> rec.ret # SIZE_MAX
                    /\ rec.status = "dropped" <=> rec.ret = SIZE_MAX]_vars

\* a queue call has returned position 1: its packet was stored behind a
\* pending entry with a smaller index
AcceptancePositionWitness ==
    \E t \in DOMAIN pushes :
        /\ pushes[t].status = "returned"
        /\ pushes[t].ret = 1
        /\ pushes[t].idx = 1

\* the entry that drain thread w took is in m_mQueue no more
TakenOut(w) ==
    \A k \in DOMAIN m_mQueue : m_mQueue[k].tag # oPacketData[w].tag

\* no thread is inside a critical section that spans several steps
NobodyInBody == \A w \in Workers : tpc[w] # "body"

\* C34 (the callback runs outside the mutex): a drain thread removes the
\* entry and lowers m_nQueueSize in one critical section, releases
\* m_oSyncMutex, calls m_lCallback, notifies m_oClearCondVar and only then
\* takes the mutex again; while it is in the callback, a queue call can
\* store its packet and another drain thread can take another entry.
SinkOutsideMutex ==
    /\ [](\A w \in Workers :
            (tpc[w] = "sink" /\ ~aborted /\ NobodyInBody) =>
                /\ TakenOut(w)
                /\ \A c \in Callers :
                      ppc[c] = "entered" => ENABLED QueueLocked(c)
                /\ \A x \in Workers :
                      tpc[x] = "start" => ENABLED DrainLoop(x))
    /\ [][\A w \in Workers :
            /\ (tpc[w] # "sink" /\ tpc'[w] = "sink") =>
                  /\ oPacketData'[w] = m_mQueue[MapBegin(m_mQueue)]
                  /\ m_mQueue' = MapErase(m_mQueue, MapBegin(m_mQueue))
                  /\ m_nQueueSize' = m_nQueueSize - oPacketData'[w].len
            /\ (tpc[w] = "sink" /\ tpc'[w] # "sink") =>
                  /\ pushes'[oPacketData[w].tag].sunk =
                        pushes[oPacketData[w].tag].sunk + 1
                  /\ \A c \in Callers :
                        ppc[c] = "waiting" => clearNotified'[c]
                  /\ tpc'[w] = "start"
                  /\ UNCHANGED <<m_mQueue, m_nQueueSize, m_nQueueCount>>]_vars

\* the drain threads are in the callback at once, each with its own entry:
\* the second entry was taken while the first callback was in progress
SinkOutsideMutexWitness ==
    /\ \A w \in Workers : tpc[w] = "sink"
    /\ \A w, x \in Workers : w # x => oPacketData[w].tag # oPacketData[x].tag

\* C37 (packet counter): between critical sections m_nQueueCount, the
\* value of getCurrentQueueCount, is the number of entries of m_mQueue,
\* after any sequence of stored packets (repeated indices included),
\* dropped packets and taken entries; and neither assertion of the drain
\* thread fails.
PacketCounter ==
    /\ m_nQueueCount = Cardinality(DOMAIN m_mQueue)
    /\ ~aborted

\* C38 (writer restart): startAsyncWriting and stopAsyncWriting can be
\* called again and again on one writer: after each start m_vhWorkers
\* holds the threads of this start and no others, and no stop calls join on
\* a thread object that an earlier stop has joined.
WriterRestart ==
    /\ ~joinError
    /\ ctl = "started" =>
          /\ \A k \in DOMAIN m_vhWorkers : m_vhWorkers[k].joinable
          /\ Len(m_vhWorkers) = Cardinality(Started)

\* no call of join fails
JoinsSucceed == ~joinError

(***************************************************************************)
(* lv::IDataProducer_: the ground-truth loaders of the video producer      *)
(* (utils.cpp 370-380) and of the image producer (utils.cpp 502-512).      *)
(***************************************************************************)
\* getTotPackets(): m_nFrameCount resp. m_nImageCount
TotPackets == 3

\* the largest number of ground-truth files
MaxGTPaths == 3

MappingPolicies == {"PixelMapping", "IdxMapping", "BatchMapping", "NoMapping"}

DatasetSources == {"video", "image"}

\* the partial maps from packet indices to ground-truth indices; an index
\* may point past the end of m_vsGTPaths (the loaders test for it)
GTIndexLUTs ==
    UNION {[d -> 0..MaxGTPaths] : d \in SUBSET (0..(TotPackets - 1))}

\* the file of position k is called k
GTPathLists == {[k \in 1..n |-> k - 1] : n \in 0..MaxGTPaths}

NoGTCall == [src |-> "none", idx |-> 0, kind |-> "none", at |-> 0]

\* the producer as its constructor leaves it: no table, no files
ProducerInit ==
    /\ eDatasetSource = "video"
    /\ eGTMappingType = "PixelMapping"
    /\ m_mGTIndexLUT = << >>
    /\ m_vsGTPaths = << >>
    /\ gtRet = NoGTCall

\* the producer after parseData of a derived class has filled it
ParsedInit ==
    /\ eDatasetSource \in DatasetSources
    /\ eGTMappingType \in MappingPolicies
    /\ m_mGTIndexLUT \in GTIndexLUTs
    /\ m_vsGTPaths \in GTPathLists
    /\ gtRet = NoGTCall

\* std::unordered_map::operator[]: the table after the access; an absent
\* key is inserted with a value-initialised (zero) entry
Subscript(lut, k) ==
    IF k \in DOMAIN lut THEN lut
    ELSE [x \in DOMAIN lut \cup {k} |-> IF x = k THEN 0 ELSE lut[x]]

\* cv::imread(m_vsGTPaths[k]): the file of position k; past the end of the
\* vector the access is undefined: the process dies, or some string is read
\* that names no file (empty packet) or names one of the files
ReadAt(paths, k) ==
    IF k < Len(paths) THEN {[kind |-> "read", at |-> k]}
    ELSE {[kind |-> "crash", at |-> 0], [kind |-> "empty", at |-> 0]}
         \cup {[kind |-> "read", at |-> x] : x \in 0..(Len(paths) - 1)}

Outcome(lut, kind, at) == [lut |-> lut, kind |-> kind, at |-> at]

\* lv::IDataProducer_<lv::DatasetSource_Video>::_getGTPacket_impl: the
\* table after the call and what the call did
VideoGTLookup(lut, paths, type, nFrameIdx) ==
    IF ~(nFrameIdx < TotPackets) THEN {Outcome(lut, "throw", 0)}
    ELSE IF nFrameIdx \notin DOMAIN lut THEN {Outcome(lut, "empty", 0)}
    ELSE LET nGTIdx == lut[nFrameIdx]
         IN  IF ~(Len(paths) > nGTIdx) THEN {Outcome(lut, "empty", 0)}
             ELSE IF type # "PixelMapping" THEN {Outcome(lut, "throw", 0)}
             ELSE {Outcome(lut, o.kind, o.at) : o \in ReadAt(paths, nGTIdx)}

\* lv::IDataProducer_<lv::DatasetSource_Image>::_getGTPacket_impl: the
\* path position is m_mGTIndexLUT[nGTIdx], looked up with operator[]
ImageGTLookup(lut, paths, type, nImageIdx) ==
    IF ~(nImageIdx < TotPackets) THEN {Outcome(lut, "throw", 0)}
    ELSE IF nImageIdx \notin DOMAIN lut THEN {Outcome(lut, "empty", 0)}
    ELSE LET nGTIdx == lut[nImageIdx]
             after  == Subscript(lut, nGTIdx)
         IN  IF ~(Len(paths) > nGTIdx) THEN {Outcome(lut, "empty", 0)}
             ELSE IF type # "PixelMapping" THEN {Outcome(lut, "throw", 0)}
             ELSE {Outcome(after, o.kind, o.at) :
                      o \in ReadAt(paths, after[nGTIdx])}

VideoGetGTPacket(i) ==
    /\ eDatasetSource = "video"
    /\ gtRet.kind # "crash"
    /\ \E o \in VideoGTLookup(m_mGTIndexLUT, m_vsGTPaths, eGTMappingType, i) :
          /\ m_mGTIndexLUT' = o.lut
          /\ gtRet' = [src |-> "video", idx |-> i, kind |-> o.kind, at |-> o.at]
    /\ UNCHANGED <<eDatasetSource, eGTMappingType, m_vsGTPaths>>
    /\ UNCHANGED <<pvars, wvars>>

ImageGetGTPacket(i) ==
    /\ eDatasetSource = "image"
    /\ gtRet.kind # "crash"
    /\ \E o \in ImageGTLookup(m_mGTIndexLUT, m_vsGTPaths, eGTMappingType, i) :
          /\ m_mGTIndexLUT' = o.lut
          /\ gtRet' = [src |-> "image", idx |-> i, kind |-> o.kind, at |-> o.at]
    /\ UNCHANGED <<eDatasetSource, eGTMappingType, m_vsGTPaths>>
    /\ UNCHANGED <<pvars, wvars>>

\* any index is asked for, the first one past the end included
ProducerNext ==
    \E i \in 0..TotPackets : VideoGetGTPacket(i) \/ ImageGetGTPacket(i)

\* the case of the lookup claims: a pixel-mapped producer whose table maps
\* index i to a position inside m_vsGTPaths
MapsInside(i) ==
    /\ eGTMappingType = "PixelMapping"
    /\ i \in DOMAIN m_mGTIndexLUT
    /\ m_mGTIndexLUT[i] < Len(m_vsGTPaths)

\* the file of position m_mGTIndexLUT[i] is read and the table stays
LooksUp(i) ==
    /\ MapsInside(i) =>
          /\ gtRet'.kind = "read"
          /\ gtRet'.at = m_mGTIndexLUT[i]
          /\ m_mGTIndexLUT' = m_mGTIndexLUT
    /\ i \notin DOMAIN m_mGTIndexLUT => gtRet'.kind = "empty"

\* C40 (ground-truth lookup of image sources): when the table maps image
\* index i to g and g is smaller than the number of ground-truth paths, the
\* image producer's loader reads the file of path position g and leaves the
\* table as it was; for an index absent from the table it returns an empty
\* packet.
ImageGroundTruthLookup ==
    [][\A i \in 0..(TotPackets - 1) : ImageGetGTPacket(i) => LooksUp(i)]_vars

\* the video producer's loader looks up that way
VideoGroundTruthLookup ==
    [][\A i \in 0..(TotPackets - 1) : VideoGetGTPacket(i) => LooksUp(i)]_vars

\* the image producer's loader reads position g when the table also maps
\* g to g
ImageLookupOnFixedPoints ==
    [][\A i \in 0..(TotPackets - 1) :
          (/\ ImageGetGTPacket(i)
           /\ MapsInside(i)
           /\ m_mGTIndexLUT[i] \in DOMAIN m_mGTIndexLUT
           /\ m_mGTIndexLUT[m_mGTIndexLUT[i]] = m_mGTIndexLUT[i])
             => LooksUp(i)]_vars

(***************************************************************************)
(* Specifications.                                                         *)
(***************************************************************************)
Init == PrecacherInit /\ WriterInit /\ ProducerInit

PrecacherSpec == Init /\ [][PrecacherNext]_vars

\* the life cycle is studied with one loader
PrecacherLifeInit == Init /\ pktLen = LoaderOf(<<MaxBufferSize - 4, 1, 2, 3>>)

PrecacherLifeSpec == PrecacherLifeInit /\ [][PrecacherLifeNext]_vars

\* the worker thread is scheduled and its wait_for times out when nothing
\* arrives; join and the restart that follows it proceed
PrecacherLifeFairness ==
    /\ WF_vars(WorkerEntry \/ WorkerPrefill \/ WorkerPrefillTimeout)
    /\ WF_vars(WorkerTimeout)
    /\ WF_vars(StopPrecachingJoin
                 \/ \E n \in BufferSizes : RestartAsyncPrecaching(n))

PrecacherLifeFairSpec == PrecacherLifeSpec /\ PrecacherLifeFairness

PrecacherRunSpec == PrecacherLifeInit /\ [][PrecacherRunNext]_vars

\* the worker thread is scheduled and the caller's wait_for times out when
\* nothing arrives (weak fairness); a thread that is notified again and
\* again while it waits eventually wakes on a notification (strong
\* fairness)
PrecacherRunFairness ==
    /\ WF_vars(WorkerEntry \/ WorkerPrefill \/ WorkerPrefillTimeout)
    /\ SF_vars(WorkerRequest)
    /\ WF_vars(GetPacketRetry)
    /\ SF_vars(GetPacketReply)

PrecacherRunFairSpec == PrecacherRunSpec /\ PrecacherRunFairness

\* the fill pass is studied on a buffer with room for more than
\* MaxFillCount packets
FillSpecInit == FillInit /\ WriterInit /\ ProducerInit

FillSpec == FillSpecInit /\ [][FillNext]_vars

SeqSpecInit == SeqInit /\ WriterInit /\ ProducerInit

SeqSpec == SeqSpecInit /\ [][SeqNext]_vars

\* the writer is studied next to a precacher that stays as constructed
WriterSpecInit == Init /\ pktLen = (CHOOSE l \in Loaders : TRUE)

WriterSpec == WriterSpecInit /\ [][WriterNext]_vars

WriterLifeSpec == WriterSpecInit /\ [][WriterLifeNext]_vars

\* every thread that can take a step eventually takes one
WriterFairness ==
    /\ \A w \in Workers :
          WF_vars(DrainLoop(w) \/ DrainBody(w) \/ DrainWake(w) \/ DrainSink(w))
    /\ \A c \in Callers :
          WF_vars(QueueLocked(c) \/ QueueWake(c)
                    \/ \E w \in 0..MaxWorkers : QueueReturn(c, w))
    /\ WF_vars(StopNotifyAll \/ StopJoin)

WriterFairSpec == WriterSpec /\ WriterFairness

\* the producer is studied next to a precacher and a writer that stay as
\* constructed
ProducerSpecInit ==
    /\ PrecacherInit
    /\ pktLen = (CHOOSE l \in Loaders : TRUE)
    /\ WriterInit
    /\ ParsedInit

ProducerSpec == ProducerSpecInit /\ [][ProducerNext]_vars

====
